---- MODULE Spec2Model ----
(***************************************************************************)
(* Model of the cognito research pipeline: the per-paper pipeline of       *)
(* ResearchOrchestrator._process_single_paper, the analyst ensemble, the   *)
(* consolidation step, CriticAgent.run on its remote desktop instance and  *)
(* SynthesizerAgent.run.                                                   *)
(*                                                                         *)
(* Every call that leaves the process (LLM completion, screenshot,         *)
(* prediction, exec, destroy, download) and every library call made on     *)
(* data the pipeline does not control either returns or raises; which one  *)
(* is drawn with \E in the action that makes the call.  What happens to    *)
(* the raised error (caught where, by which handler, with which fallback)  *)
(* is translated from the try/except/finally structure of the source.      *)
(***************************************************************************)
EXTENDS Integers, Sequences, FiniteSets, TLC

VARIABLES
    pc,                   \* position of _process_single_paper
    state,                \* the PaperAnalysisState of the paper
    invoked,              \* stages whose executor has been called for the paper
    raised_in,            \* stages whose executor raised to _process_single_paper
    futures,              \* one future per analyst of the ensemble pool
    completion,           \* order in which the analyst threads completed
    individual_analyses,  \* list(executor.map(...)) of the paper
    critic,               \* locals of CriticAgent.run, per calling thread
    computer,             \* the remote desktop instance of CriticAgent.executor
    retry_call,           \* arguments of one call of a decorated function
    retry_result,         \* what that call did
    merge_input,          \* individual analyses handed to the local merge
    merge_result,         \* the AnalysisResult the local merge returned
    run,                  \* locals of ResearchOrchestrator.run
    tasks,                \* the futures of the paper pool, one per paper
    log_file,             \* the text of logs/cognito_thoughts.txt
    file_lock,            \* the holder of each lock guarding the file
    writers,              \* the threads that call the loggers
    cli,                  \* the process started by main.py
    parse,                \* one model response on its way through a stage
    extract               \* locals of ExtractorAgent.run

paper_vars == <<pc, state, invoked, raised_in, futures, completion,
                individual_analyses, critic, computer>>

retry_vars == <<retry_call, retry_result>>

merge_vars == <<merge_input, merge_result>>

run_vars == <<run, tasks>>

log_vars == <<log_file, file_lock, writers>>

\* The variables no step of a paper's pipeline touches, and likewise for the
\* retried call, the local merge, the run and the activity log.
outside_paper == <<retry_vars, merge_vars, run_vars, log_vars, cli, parse, extract>>

outside_retry == <<paper_vars, merge_vars, run_vars, log_vars, cli, parse, extract>>

outside_merge == <<paper_vars, retry_vars, run_vars, log_vars, cli, parse, extract>>

outside_run == <<paper_vars, retry_vars, merge_vars, log_vars, cli, parse, extract>>

outside_log == <<paper_vars, retry_vars, merge_vars, run_vars, cli, parse, extract>>

outside_cli == <<paper_vars, retry_vars, merge_vars, run_vars, log_vars, parse, extract>>

outside_parse == <<paper_vars, retry_vars, merge_vars, run_vars, log_vars, cli, extract>>

outside_extract == <<paper_vars, retry_vars, merge_vars, run_vars, log_vars, cli, parse>>

vars == <<paper_vars, retry_vars, merge_vars, run_vars, log_vars, cli, parse, extract>>

pipeline_vars == <<pc, state, invoked, raised_in, futures, completion,
                   individual_analyses>>

(***************************************************************************)
(* Bounds of the model.                                                    *)
(***************************************************************************)
NumWorkers == 2     \* threads that call CriticAgent.run in SpecCritic
MaxClaims == 2      \* key claims of an analysis handed to CriticAgent.run directly

Workers == 1..NumWorkers

None == [tag |-> "None"]

\* No decorated function is being called, no local merge is being made and
\* ResearchOrchestrator.run has not been entered.
RetryIdle == retry_call = None /\ retry_result = None

MergeIdle == merge_input = <<>> /\ merge_result = None

RunIdle == run = None /\ tasks = <<>>

\* No logger has been called.
LogIdle == log_file = <<>> /\ file_lock = <<>> /\ writers = <<>>

\* main.py has not been started.
CliIdle == cli = None

ParseIdle == parse = None

ExtractIdle == extract = None

Min(a, b) == IF a < b THEN a ELSE b

(***************************************************************************)
(* utils/shared_types.py                                                   *)
(***************************************************************************)
AnalysisResultFields ==
    {"key_claims", "metrics_and_results", "methodology_summary",
     "mathematical_derivations", "tldr", "eli5"}

\* AnalysisResult(...): a record of the six declared fields.  A metrics map is
\* the set of its <<key, value>> items.
AnalysisResult(key_claims, metrics_and_results, methodology_summary, mathematical_derivations, tldr, eli5) ==
    [key_claims |-> key_claims,
     metrics_and_results |-> metrics_and_results,
     methodology_summary |-> methodology_summary,
     mathematical_derivations |-> mathematical_derivations,
     tldr |-> tldr,
     eli5 |-> eli5]

\* A model response is a text: either not JSON at all, or a JSON object, given
\* by the set of keys it carries and their values.
\* Its types give, for every key, the JSON type of the value the text carries.
NotJson == [kind |-> "text"]

\* The type each field is declared with (lines 13-31).
DeclaredType ==
    [abstract |-> "str", introduction |-> "str", methodology |-> "str",
     results |-> "str", conclusion |-> "str", full_text |-> "str",
     figures |-> "List[Dict[str, str]]",
     key_claims |-> "List[str]", metrics_and_results |-> "Dict[str, str]",
     methodology_summary |-> "str", mathematical_derivations |-> "List[str]",
     tldr |-> "str", eli5 |-> "str"]

\* A JSON object whose values have the declared types, for the keys that
\* are fields of a record of shared_types.py.
JsonObject(obj) ==
    [kind |-> "json", obj |-> obj,
     types |-> [k \in DOMAIN obj \cap DOMAIN DeclaredType |-> DeclaredType[k]]]

\* A JSON object in which the value of one key has another type.
JsonMistyped(obj, key, type) ==
    [kind |-> "json", obj |-> obj,
     types |-> [k \in DOMAIN obj \cap DOMAIN DeclaredType |->
                   IF k = key THEN type ELSE DeclaredType[k]]]

\* Validation of the values: a value of another type than the declared one
\* is rejected (none of the declared types is coerced from another JSON type).
well_typed(text, fields) ==
    \A k \in fields \cap DOMAIN text.obj : text.types[k] = DeclaredType[k]

\* Mutant of AnalysisResult.model_validate_json: model_construct, which
\* validates nothing and keeps the keys the text happens to carry.
AnalysisResult_model_construct(text) ==
    IF text.kind = "json"
    THEN [raised |-> FALSE, value |-> text.obj]
    ELSE [raised |-> TRUE, value |-> None]

\* AnalysisResult.model_validate_json: every declared field is required,
\* unknown keys are ignored, anything else is a ValidationError.
AnalysisResult_model_validate_json(text) ==
    IF /\ text.kind = "json"
       /\ AnalysisResultFields \subseteq DOMAIN text.obj
       /\ well_typed(text, AnalysisResultFields)
    THEN [raised |-> FALSE,
          value |-> AnalysisResult(text.obj.key_claims,
                                   text.obj.metrics_and_results,
                                   text.obj.methodology_summary,
                                   text.obj.mathematical_derivations,
                                   text.obj.tldr,
                                   text.obj.eli5)]
    ELSE [raised |-> TRUE, value |-> None]

PaperAnalysisState(structured_content, analysis, critique, final_report) ==
    [structured_content |-> structured_content,
     analysis |-> analysis,
     critique |-> critique,
     final_report |-> final_report]

(***************************************************************************)
(* utils/retry_utils.py                                                    *)
(***************************************************************************)
\* script[k] is what the k-th invocation of the wrapped function does: "ok" or
\* the kind of error it raises.  The result records whether the wrapper
\* raised, the error, the number of invocations and the delays slept.
\* Mutant of caught: the except clause catches every error.
caught_everything(outcome, exceptions) == outcome # "ok"

\* except exceptions as e (line 32): the error is of an allow-listed kind.
caught(outcome, exceptions) == outcome \in exceptions

\* Mutant of exhausted: the wrapper gives up one attempt early.
exhausted_one_early(attempt, max_retries) == attempt + 1 >= max_retries

\* if attempt == max_retries (line 34): the bare raise of line 36 follows.
exhausted(attempt, max_retries) == attempt = max_retries

RECURSIVE wrapper(_, _, _, _, _, _, _, _)
wrapper(max_retries, backoff_factor, max_delay, exceptions, script, attempt, delay, slept) ==
    LET outcome == script[attempt + 1] IN
    IF outcome = "ok"
    THEN [raised |-> FALSE, error |-> "", calls |-> attempt + 1, slept |-> slept]
    ELSE IF ~caught(outcome, exceptions) \/ exhausted(attempt, max_retries)
    THEN [raised |-> TRUE, error |-> outcome, calls |-> attempt + 1,
          slept |-> slept]
    ELSE wrapper(max_retries, backoff_factor, max_delay, exceptions, script,
                 attempt + 1, Min(delay * backoff_factor, max_delay),
                 Append(slept, delay))

retry_with_exponential_backoff(max_retries, initial_delay, backoff_factor, max_delay, exceptions, script) ==
    wrapper(max_retries, backoff_factor, max_delay, exceptions, script,
            0, initial_delay, <<>>)

(***************************************************************************)
(* agents/base_agent.py                                                    *)
(***************************************************************************)
CallLLMMaxRetries == 3
CallLLMInitialDelay == 2
DefaultBackoffFactor == 2
DefaultMaxDelay == 60

CallLLMExceptions == {"APIError", "APIConnectionError", "RateLimitError"}

\* What one invocation of the body of _call_llm can do: return the message,
\* raise an allow-listed API error, or raise another error (response.content[0]
\* of an empty content list is an IndexError).
AttemptOutcomes == {"ok", "RateLimitError", "IndexError"}

\* The scripts of a retried call: a run of allow-listed errors that ends with
\* the first return or the first other error, or that uses up every attempt.
Scripts ==
    {script \in UNION {[1..n -> AttemptOutcomes] : n \in 1..(CallLLMMaxRetries + 1)} :
        /\ \A k \in 1..(Len(script) - 1) : script[k] \in CallLLMExceptions
        /\ script[Len(script)] \in CallLLMExceptions
               => Len(script) = CallLLMMaxRetries + 1}

_call_llm(script) ==
    retry_with_exponential_backoff(CallLLMMaxRetries, CallLLMInitialDelay,
                                   DefaultBackoffFactor, DefaultMaxDelay,
                                   CallLLMExceptions, script)

(***************************************************************************)
(* agents/analyst_agent.py                                                 *)
(***************************************************************************)
AnalysisFailed ==
    AnalysisResult(<<"Analysis failed due to error">>, {},
                   "Error during analysis", <<>>,
                   "Analysis could not be completed",
                   "There was a problem analyzing this paper")

\* Mutant of AnalystCatches: an except clause that names only the API errors.
AnalystCatches_ApiErrorsOnly(error) == error \in CallLLMExceptions

\* The except clause of AnalystAgent.run: which errors raised inside the try
\* block it catches (Exception: all of them).
AnalystCatches(error) == TRUE

\* AnalystAgent.run: the retried call, the parse, and the except clause that
\* turns either failure into the placeholder result.
AnalystAgent_run(script, response_text) ==
    LET message == _call_llm(script)
        parsed == AnalysisResult_model_validate_json(response_text)
    IN  IF message.raised
        THEN IF AnalystCatches(message.error)
             THEN [raised |-> FALSE, value |-> AnalysisFailed]
             ELSE [raised |-> TRUE, value |-> None]
        ELSE IF parsed.raised
        THEN IF AnalystCatches("ValidationError")
             THEN [raised |-> FALSE, value |-> AnalysisFailed]
             ELSE [raised |-> TRUE, value |-> None]
        ELSE [raised |-> FALSE, value |-> parsed.value]

\* The texts the model answers an analyst with.
AnalysisX ==
    [key_claims |-> <<"x", "y">>,
     metrics_and_results |-> {<<"acc", "0.9">>},
     methodology_summary |-> "",
     mathematical_derivations |-> <<"d1">>,
     tldr |-> "t1",
     eli5 |-> ""]

MissingKey == [key_claims |-> <<"x">>, tldr |-> "t"]

AnalystResponses ==
    {JsonObject(AnalysisX), JsonObject(MissingKey), NotJson}

(***************************************************************************)
(* agents/extractor_agent.py                                               *)
(***************************************************************************)
StructuredContentRequired ==
    {"abstract", "introduction", "methodology", "results", "conclusion",
     "full_text"}

\* StructuredContent.model_validate_json: the six text fields are required,
\* figures defaults to the empty list.
StructuredContent_model_validate_json(text) ==
    IF /\ text.kind = "json"
       /\ StructuredContentRequired \subseteq DOMAIN text.obj
       /\ well_typed(text, StructuredContentRequired \cup {"figures"})
    THEN [raised |-> FALSE,
          value |-> [abstract |-> text.obj.abstract,
                     introduction |-> text.obj.introduction,
                     methodology |-> text.obj.methodology,
                     results |-> text.obj.results,
                     conclusion |-> text.obj.conclusion,
                     full_text |-> text.obj.full_text,
                     figures |-> IF "figures" \in DOMAIN text.obj
                                 THEN text.obj.figures ELSE <<>>]]
    ELSE [raised |-> TRUE, value |-> None]

\* What download_paper_source and extract_from_latex_source give: text, no
\* text, or no source archive at all.
LatexOutcomes == {"latex_text", "latex_empty", "no_source"}
\* What download_paper and extract_from_pdf give.
PdfOutcomes == {"pdf_text", "pdf_empty", "no_download"}

ContentJson ==
    [abstract |-> "a", introduction |-> "i", methodology |-> "m",
     results |-> "r", conclusion |-> "c", full_text |-> "f"]

ExtractorResponses == {JsonObject(ContentJson), NotJson}

\* ExtractorAgent.run.  full_text is bound only inside the branch taken when a
\* source archive exists, so without one the test `if not full_text` reads an
\* unbound local and raises.
ExtractorAgent_run(latex, pdf, script, response_text) ==
    LET figures == IF latex = "latex_text" THEN <<"latex caption">>
                   ELSE <<"pdf image">>
        message == _call_llm(script)
        parsed == StructuredContent_model_validate_json(response_text)
    IN  IF latex = "no_source"
        THEN [raised |-> TRUE, value |-> None]
        ELSE IF latex = "latex_empty" /\ pdf # "pdf_text"
        THEN [raised |-> TRUE, value |-> None]
        ELSE IF message.raised \/ parsed.raised
        THEN [raised |-> FALSE,
              value |-> [abstract |-> "metadata.abstract",
                         introduction |-> "Content extraction failed",
                         methodology |-> "Content extraction failed",
                         results |-> "Content extraction failed",
                         conclusion |-> "Content extraction failed",
                         full_text |-> "full_text[:10000]",
                         figures |-> figures]]
        ELSE [raised |-> FALSE,
              value |-> [parsed.value EXCEPT !.figures = figures]]

(***************************************************************************)
(* agents/research_orchestrator.py: consolidate_analyses                   *)
(***************************************************************************)
analyst_personas ==
    <<"The Skeptic", "The Proponent", "The Pragmatist", "The Formalist",
      "The Strategist">>

Analysts == 1..Len(analyst_personas)

\* Mutant of fromkeys: the list is returned as it is.
fromkeys_keep_duplicates(xs) == xs

\* list(dict.fromkeys(xs)): the first occurrence of every element, in order.
RECURSIVE fromkeys(_)
fromkeys(xs) ==
    IF xs = <<>> THEN <<>>
    ELSE LET front == fromkeys(SubSeq(xs, 1, Len(xs) - 1))
             last == xs[Len(xs)]
         IN  IF \E i \in 1..Len(front) : front[i] = last
             THEN front ELSE Append(front, last)

\* Mutant of update: a key that is already present keeps its value.
update_keep_existing(a, b) ==
    a \cup {item \in b : ~ \E other \in a : other[1] = item[1]}

\* dict.update on the item sets of two maps: the keys of b replace those of a.
update(a, b) ==
    {item \in a : ~ \E other \in b : other[1] = item[1]} \cup b

\* Mutant of first_nonempty: a later non-empty value replaces the kept one.
last_nonempty(consolidated, value) ==
    IF value # "" THEN value ELSE consolidated

\* if not consolidated_x and analysis.x: consolidated_x = analysis.x
first_nonempty(consolidated, value) ==
    IF consolidated = "" /\ value # "" THEN value ELSE consolidated

\* The fallback loop of consolidate_analyses over the first n analyses.
RECURSIVE simple_merge(_, _)
simple_merge(analyses, n) ==
    IF n = 0
    THEN AnalysisResult(<<>>, {}, "", <<>>, "", "")
    ELSE LET acc == simple_merge(analyses, n - 1)
             analysis == analyses[n]
         IN  AnalysisResult(
                 acc.key_claims \o analysis.key_claims,
                 update(acc.metrics_and_results, analysis.metrics_and_results),
                 first_nonempty(acc.methodology_summary,
                                analysis.methodology_summary),
                 acc.mathematical_derivations \o analysis.mathematical_derivations,
                 first_nonempty(acc.tldr, analysis.tldr),
                 first_nonempty(acc.eli5, analysis.eli5))

fallback_merge(analyses) ==
    LET merged == simple_merge(analyses, Len(analyses))
    IN  [merged EXCEPT !.key_claims = fromkeys(merged.key_claims),
                       !.mathematical_derivations =
                           fromkeys(merged.mathematical_derivations)]

\* Which failures of the primary path the try block of consolidate_analyses
\* covers.  The prompt is built (json.dumps of every analysis, lines 130-139)
\* before the try statement is entered.  The module imports neither json nor
\* anthropic (lines 1-16), so in the file as written json.dumps is a NameError
\* raised before the try, for every non-empty list of analyses.
ConsolidationGuarded == {"messages.create", "model_validate_json"}

AnalysisMerged ==
    [key_claims |-> <<"x", "z">>,
     metrics_and_results |-> {<<"acc", "0.9">>},
     methodology_summary |-> "m",
     mathematical_derivations |-> <<>>,
     tldr |-> "t",
     eli5 |-> "e"]

ConsolidationResponses == {JsonObject(AnalysisMerged), NotJson}

\* consolidate_analyses: serialised says whether building the prompt worked,
\* call what client.messages.create did, response_text what it answered.
consolidate_analyses(analyses, serialised, call, response_text) ==
    LET parsed == AnalysisResult_model_validate_json(response_text)
        failure == IF ~serialised THEN "json.dumps"
                   ELSE IF call # "ok" THEN "messages.create"
                   ELSE IF parsed.raised THEN "model_validate_json"
                   ELSE "none"
    IN  IF failure = "none" THEN [raised |-> FALSE, value |-> parsed.value]
        ELSE IF failure \in ConsolidationGuarded
        THEN [raised |-> FALSE, value |-> fallback_merge(analyses)]
        ELSE [raised |-> TRUE, value |-> None]

(***************************************************************************)
(* agents/critic_agent.py                                                  *)
(***************************************************************************)
max_steps == 5

\* Critique(...) of critic_agent.py; a text is the sequence of its pieces.
Critique(corroborating_sources, conflicting_sources, synthesis) ==
    [corroborating_sources |-> corroborating_sources,
     conflicting_sources |-> conflicting_sources,
     synthesis |-> synthesis]

\* str.strip: leading and trailing newlines are dropped.
RECURSIVE strip(_)
strip(text) ==
    IF text = <<>> THEN <<>>
    ELSE IF Head(text) = "\n" THEN strip(Tail(text))
    ELSE IF text[Len(text)] = "\n" THEN strip(SubSeq(text, 1, Len(text) - 1))
    ELSE text

\* A source is the JSON object the summary names: the keys it carries.
SourceWithTitle == [title |-> "T", url |-> "U"]
SourceWithoutTitle == [url |-> "V"]

\* The text the summary call answers with: no JSON, or a JSON object, given
\* by the keys that carry a value and the keys that carry null.
JsonSummary(obj, null) == [kind |-> "json", obj |-> obj, null |-> null]

SummaryResponses ==
    {JsonSummary([corroborating |-> <<SourceWithTitle>>,
                  conflicting |-> <<>>,
                  synthesis |-> "supported"], {}),
     JsonSummary([conflicting |-> <<SourceWithoutTitle>>], {}),
     JsonSummary([corroborating |-> <<SourceWithTitle>>,
                  synthesis |-> "supported"], {"conflicting"}),
     NotJson}

\* dict.get(key, default) on a parsed JSON object.
get(obj, key, default) == IF key \in DOMAIN obj THEN obj[key] ELSE default

\* The locals of one execution of CriticAgent.run.
CriticIdle ==
    [pc |-> "idle", key_claims |-> <<>>, claim |-> 0, step_count |-> 0,
     task_complete |-> FALSE, corroborating_sources |-> <<>>,
     conflicting_sources |-> <<>>, synthesis_text |-> <<>>,
     result |-> None, destroy_calls |-> 0,
     exec_calls |-> 0, last_exec |-> "none"]

\* An operation issued on self.executor.computer by thread w.
use(w) ==
    [computer EXCEPT !.users = @ \cup {w},
                     !.used_after_destroy = @ \/ computer.destroyed]

\* Line 58 reads analysis.metadata.title before the try statement is entered.
\* AnalysisResult declares no metadata field, so for an AnalysisResult the
\* read raises to the caller; an object that carries one passes.
CriticAgent_run_enter(w, key_claims, has_metadata) ==
    /\ critic[w].pc = "idle"
    /\ critic' = [critic EXCEPT ![w] =
           IF has_metadata
           THEN [CriticIdle EXCEPT !.pc = "for", !.key_claims = key_claims]
           ELSE [CriticIdle EXCEPT !.pc = "raised"]]
    /\ UNCHANGED computer

\* Mutant of CriticStageError: the lists built so far are returned.
CriticStageError_KeepsSources(c) ==
    [c EXCEPT !.pc = "finally",
              !.result = Critique(c.corroborating_sources,
                                  c.conflicting_sources,
                                  <<"Error during external validation">>)]

\* What the except clause of the outer try statement returns.
CriticStageError(c) ==
    [c EXCEPT !.pc = "finally",
              !.result = Critique(<<>>, <<>>,
                                  <<"Error during external validation">>)]

\* for claim in analysis.key_claims: the next claim, or the return statement.
CriticFor(w) ==
    LET c == critic[w] IN
    /\ c.pc = "for"
    /\ critic' = [critic EXCEPT ![w] =
           IF c.claim < Len(c.key_claims)
           THEN [c EXCEPT !.pc = "while", !.claim = c.claim + 1,
                          !.step_count = 0, !.task_complete = FALSE,
                          !.exec_calls = 0, !.last_exec = "none"]
           ELSE [c EXCEPT !.pc = "finally",
                          !.result = Critique(c.corroborating_sources,
                                              c.conflicting_sources,
                                              strip(c.synthesis_text))]]
    /\ UNCHANGED computer
    /\ UNCHANGED pipeline_vars
    /\ UNCHANGED outside_paper

\* Mutant of while_condition: the completion signal is not looked at.
while_condition_steps_only(step_count, task_complete) == step_count < max_steps

\* Line 74: while step_count < max_steps and not task_complete.
while_condition(step_count, task_complete) ==
    step_count < max_steps /\ ~task_complete

\* Mutant of after_exec: an error of exec leaves the outer try block.
after_exec_propagates(c, exec) ==
    IF exec = "error"
    THEN CriticStageError([c EXCEPT !.exec_calls = @ + 1, !.last_exec = exec])
    ELSE [c EXCEPT !.exec_calls = @ + 1, !.last_exec = exec]

\* Lines 93-99: self.executor.exec(action[0]) returned or raised; the except
\* clause of line 97 logs the error and nothing else.
after_exec(c, exec) ==
    [c EXCEPT !.exec_calls = @ + 1, !.last_exec = exec]

\* One round of the while loop: screenshot, predict, and exec of the action.
CriticStep(w) ==
    LET c == critic[w] IN
    /\ c.pc = "while"
    /\ while_condition(c.step_count, c.task_complete)
    /\ \E screenshot \in {"ok", "error"}, predict \in {"ok", "error"},
          done \in BOOLEAN, action \in BOOLEAN, exec \in {"ok", "error"} :
          LET stepped == [c EXCEPT !.step_count = c.step_count + 1,
                                   !.last_exec = "none"]
          IN
          /\ critic' = [critic EXCEPT ![w] =
                 IF screenshot = "error" \/ predict = "error"
                 THEN CriticStageError(stepped)
                 ELSE IF action /\ ~done
                 THEN after_exec(stepped, exec)
                 ELSE [stepped EXCEPT !.task_complete = TRUE]]
          /\ computer' = use(w)
    /\ UNCHANGED pipeline_vars
    /\ UNCHANGED outside_paper

\* Mutant of summary_failed: the lists are emptied as the outer except
\* clause does.
summary_failed_resets(c, claim) ==
    [c EXCEPT !.corroborating_sources = <<>>, !.conflicting_sources = <<>>,
              !.synthesis_text =
                  @ \o <<"\n", "Could not analyze search results", claim>>]

\* The except clause of lines 136-138: a note for the claim is appended to
\* the synthesis text.
summary_failed(c, claim) ==
    [c EXCEPT !.synthesis_text =
                  @ \o <<"\n", "Could not analyze search results", claim>>]

\* After the loop: the final screenshot and the summary of the claim.  The
\* lists are extended one after the other (lines 132-133), and extending by
\* null raises.
CriticSummarise(w) ==
    LET c == critic[w] IN
    /\ c.pc = "while"
    /\ ~while_condition(c.step_count, c.task_complete)
    /\ \E screenshot \in {"ok", "error"}, call \in {"ok", "error"},
          text \in SummaryResponses :
          LET claim == c.key_claims[c.claim]
              back == [c EXCEPT !.pc = "for"]
          IN  /\ critic' = [critic EXCEPT ![w] =
                     IF screenshot = "error"
                     THEN CriticStageError(c)
                     ELSE IF call = "error" \/ text.kind # "json"
                     THEN summary_failed(back, claim)
                     ELSE IF "corroborating" \in text.null
                     THEN summary_failed(back, claim)
                     ELSE IF "conflicting" \in text.null
                     THEN summary_failed(
                              [back EXCEPT !.corroborating_sources =
                                  @ \o get(text.obj, "corroborating", <<>>)],
                              claim)
                     ELSE [back EXCEPT
                              !.corroborating_sources =
                                  @ \o get(text.obj, "corroborating", <<>>),
                              !.conflicting_sources =
                                  @ \o get(text.obj, "conflicting", <<>>),
                              !.synthesis_text =
                                  @ \o <<"\n", "Analysis for claim", claim,
                                         get(text.obj, "synthesis", "")>>]]
              /\ computer' = use(w)
    /\ UNCHANGED pipeline_vars
    /\ UNCHANGED outside_paper

\* finally: self.executor.destroy().  An error of destroy replaces the value
\* the try statement was about to return.
CriticDestroy(w) ==
    LET c == critic[w] IN
    /\ c.pc = "finally"
    /\ \E destroy \in {"ok", "error"} :
          /\ critic' = [critic EXCEPT ![w] =
                 [CriticIdle EXCEPT
                     !.destroy_calls = c.destroy_calls + 1,
                     !.pc = IF destroy = "ok" THEN "returned" ELSE "raised",
                     !.result = IF destroy = "ok" THEN c.result ELSE None]]
          /\ computer' = [use(w) EXCEPT !.destroyed = @ \/ destroy = "ok"]
    /\ UNCHANGED pipeline_vars
    /\ UNCHANGED outside_paper

(***************************************************************************)
(* agents/synthesizer_agent.py                                             *)
(***************************************************************************)
\* The lines of the analysis block of the prompt.
Bullets(xs) == [i \in 1..Len(xs) |-> <<"- ", xs[i]>>]

analysis_text(analysis) ==
    [key_claims |-> Bullets(analysis.key_claims),
     metrics_and_results |->
         {<<"- ", item[1], ": ", item[2]>> : item \in analysis.metrics_and_results},
     methodology_summary |-> analysis.methodology_summary,
     mathematical_derivations |->
         IF analysis.mathematical_derivations # <<>>
         THEN Bullets(analysis.mathematical_derivations) ELSE <<"None">>,
     tldr |-> analysis.tldr,
     eli5 |-> analysis.eli5]

\* One line of a source list: s['title'] and s.get('url', 'N/A').
SourceLine(s) == <<"- ", s.title, get(s, "url", "N/A")>>

HasTitles(sources) == \A i \in 1..Len(sources) : "title" \in DOMAIN sources[i]

critique_text(critique) ==
    IF critique = None
    THEN [text |-> "No external validation performed."]
    ELSE [corroborating |->
              [i \in 1..Len(critique.corroborating_sources) |->
                  SourceLine(critique.corroborating_sources[i])],
          conflicting |->
              [i \in 1..Len(critique.conflicting_sources) |->
                  SourceLine(critique.conflicting_sources[i])],
          synthesis |-> critique.synthesis]

\* The texts the model answers the synthesizer with.
ReportTexts == {<<"# Report">>, <<>>}

\* SynthesizerAgent.run: both prompt blocks are formatted before the try
\* statement; s['title'] of a source without a title is a KeyError there.
SynthesizerAgent_run(analysis, critique, script, report) ==
    LET message == _call_llm(script) IN
    IF critique # None /\ ~(HasTitles(critique.corroborating_sources)
                            /\ HasTitles(critique.conflicting_sources))
    THEN [raised |-> TRUE, value |-> None]
    ELSE IF message.raised
    THEN [raised |-> FALSE,
          value |-> [text |-> <<"# Research Paper Analysis Report",
                                analysis_text(analysis),
                                critique_text(critique),
                                "Failed to generate comprehensive report",
                                message.error>>]]
    ELSE [raised |-> FALSE, value |-> [text |-> report]]

(***************************************************************************)
(* agents/research_orchestrator.py: _process_single_paper                  *)
(***************************************************************************)
\* The pool thread that runs _process_single_paper for the paper.
PaperThread == CHOOSE w \in Workers : \A v \in Workers : w <= v

\* Mutant of set_field: the stage builds a new state holding only its field.
set_field_fresh(st, field, value) ==
    [PaperAnalysisState(None, None, None, None) EXCEPT ![field] = value]

\* state.<field> = value
set_field(st, field, value) == [st EXCEPT ![field] = value]

\* Mutant of AfterExtractFailure: the except clause falls through to step 2.
AfterExtractFailure_FallThrough == "analyze"

\* `return state` in the except clause of step 1 (line 66).
AfterExtractFailure == "done"

\* `return state` in the except clause of step 3 (line 92).
AfterConsolidateFailure == "done"

\* Mutant of AfterCriticFailure: the except clause returns the state.
AfterCriticFailure_Returns == "done"

\* The except clause of step 4 falls through to step 5 (line 105).
AfterCriticFailure == "synthesize"

\* Mutant of executor_map: the results are collected as the futures complete.
executor_map_as_completed(fs, completed) ==
    [k \in Analysts |-> fs[completed[k]]]

\* list(executor.map(analyze_with_persona, self.analysts)): the results of the
\* futures in the order of self.analysts, whatever order they completed in.
executor_map(fs, completed) == [i \in Analysts |-> fs[i]]

\* 1. Extract content (lines 52-66).
Extract ==
    /\ pc = "extract"
    /\ \E latex \in LatexOutcomes, pdf \in PdfOutcomes, script \in Scripts,
          text \in ExtractorResponses :
          LET r == ExtractorAgent_run(latex, pdf, script, text) IN
          /\ invoked' = invoked \cup {"Extract"}
          /\ IF r.raised
             THEN /\ raised_in' = raised_in \cup {"Extract"}
                  /\ pc' = AfterExtractFailure
                  /\ UNCHANGED state
             ELSE /\ state' = set_field(state, "structured_content", r.value)
                  /\ pc' = "analyze"
                  /\ UNCHANGED raised_in
    /\ UNCHANGED <<futures, completion, individual_analyses, critic, computer>>
    /\ UNCHANGED outside_paper

\* 2. One thread of the ensemble pool: analyze_with_persona (lines 72-74).
analyze_with_persona(i) ==
    /\ pc = "analyze"
    /\ futures[i] = None
    /\ \E script \in Scripts, text \in AnalystResponses :
          LET r == AnalystAgent_run(script, text) IN
          futures' = [futures EXCEPT ![i] =
              [by |-> analyst_personas[i],
               raised |-> r.raised,
               value |-> r.value,
               failed |-> _call_llm(script).raised
                          \/ AnalysisResult_model_validate_json(text).raised]]
    /\ completion' = Append(completion, i)
    /\ invoked' = invoked \cup {"Analyze"}
    /\ UNCHANGED <<pc, state, raised_in, individual_analyses, critic, computer>>
    /\ UNCHANGED outside_paper

\* 2. The with block ends: every future is done and the list is built
\* (lines 76-79).  A future that raised re-raises out of the list.
ensemble_join ==
    /\ pc = "analyze"
    /\ \A i \in Analysts : futures[i] # None
    /\ IF \E i \in Analysts : futures[i].raised
       THEN /\ pc' = "raised"
            /\ raised_in' = raised_in \cup {"Analyze"}
            /\ UNCHANGED individual_analyses
       ELSE /\ pc' = "consolidate"
            /\ individual_analyses' = executor_map(futures, completion)
            /\ UNCHANGED raised_in
    /\ futures' = [i \in Analysts |-> None]
    /\ UNCHANGED <<state, invoked, completion, critic, computer>>
    /\ UNCHANGED outside_paper

\* 3. Consolidate analyses (lines 81-92).
Consolidate ==
    /\ pc = "consolidate"
    /\ \E serialised \in BOOLEAN, call \in {"ok", "error"},
          text \in ConsolidationResponses :
          LET r == consolidate_analyses(
                       [i \in Analysts |-> individual_analyses[i].value],
                       serialised, call, text)
          IN  IF r.raised
              THEN /\ raised_in' = raised_in \cup {"Consolidate"}
                   /\ pc' = AfterConsolidateFailure
                   /\ UNCHANGED state
              ELSE /\ state' = set_field(state, "analysis", r.value)
                   /\ pc' = "critic"
                   /\ UNCHANGED raised_in
    /\ invoked' = invoked \cup {"Consolidate"}
    /\ individual_analyses' = <<>>
    /\ completion' = <<>>
    /\ UNCHANGED <<futures, critic, computer>>
    /\ UNCHANGED outside_paper

\* 4. self.critic_agent.run(...) is called (line 98).  The call hands
\* state.analysis, an AnalysisResult, and a second positional argument to a run
\* that takes one: as the file is written the call raises before the try
\* statement of run is entered.  has_metadata = TRUE is the call reaching the
\* body of run, as both line 98 and line 58 expect of it.
CallCritic ==
    /\ pc = "critic"
    /\ \E has_metadata \in BOOLEAN :
          CriticAgent_run_enter(PaperThread, state.analysis.key_claims,
                                has_metadata)
    /\ invoked' = invoked \cup {"Critique"}
    /\ UNCHANGED <<pc, state, raised_in, futures, completion,
                   individual_analyses>>
    /\ UNCHANGED outside_paper

\* 4. The call of line 98 returns or raises (lines 98-105).
CriticReturns ==
    /\ pc = "critic"
    /\ critic[PaperThread].pc \in {"returned", "raised"}
    /\ IF critic[PaperThread].pc = "returned"
       THEN /\ state' = set_field(state, "critique", critic[PaperThread].result)
            /\ pc' = "synthesize"
            /\ UNCHANGED raised_in
       ELSE /\ raised_in' = raised_in \cup {"Critique"}
            /\ pc' = AfterCriticFailure
            /\ UNCHANGED state
    /\ critic' = [critic EXCEPT ![PaperThread] = CriticIdle]
    /\ UNCHANGED <<invoked, futures, completion, individual_analyses, computer>>
    /\ UNCHANGED outside_paper

\* 5. Synthesize final report (lines 107-123).
Synthesize ==
    /\ pc = "synthesize"
    /\ \E script \in Scripts, report \in ReportTexts :
          LET r == SynthesizerAgent_run(state.analysis, state.critique,
                                        script, report)
          IN  IF r.raised
              THEN /\ raised_in' = raised_in \cup {"Synthesize"}
                   /\ UNCHANGED state
              ELSE /\ state' = set_field(state, "final_report", r.value)
                   /\ UNCHANGED raised_in
    /\ pc' = "done"
    /\ invoked' = invoked \cup {"Synthesize"}
    /\ UNCHANGED <<futures, completion, individual_analyses, critic, computer>>
    /\ UNCHANGED outside_paper

Init ==
    /\ pc = "extract"
    /\ state = PaperAnalysisState(None, None, None, None)
    /\ invoked = {}
    /\ raised_in = {}
    /\ futures = [i \in Analysts |-> None]
    /\ completion = <<>>
    /\ individual_analyses = <<>>
    /\ critic = [w \in Workers |-> CriticIdle]
    /\ computer = [destroyed |-> FALSE, users |-> {},
                   used_after_destroy |-> FALSE]
    /\ RetryIdle /\ MergeIdle /\ RunIdle /\ LogIdle /\ CliIdle /\ ParseIdle /\ ExtractIdle

Next ==
    \/ Extract
    \/ \E i \in Analysts : analyze_with_persona(i)
    \/ ensemble_join
    \/ Consolidate
    \/ CallCritic
    \/ CriticFor(PaperThread)
    \/ CriticStep(PaperThread)
    \/ CriticSummarise(PaperThread)
    \/ CriticDestroy(PaperThread)
    \/ CriticReturns
    \/ Synthesize

Spec == Init /\ [][Next]_vars

(***************************************************************************)
(* The one CriticAgent of the orchestrator, called from the threads of the *)
(* paper pool (research_orchestrator.py lines 215-219): every pipeline     *)
(* calls self.critic_agent.run.                                            *)
(***************************************************************************)
ClaimPool == <<"x", "y", "z", "u", "v", "w">>

\* Thread w reaches step 4 of its paper with an analysis of n key claims.
WorkerCallsCritic(w) ==
    /\ \E n \in 0..MaxClaims, has_metadata \in BOOLEAN :
          CriticAgent_run_enter(w, SubSeq(ClaimPool, 1, n), has_metadata)
    /\ UNCHANGED pipeline_vars
    /\ UNCHANGED outside_paper

InitCritic ==
    /\ pc = "pool"
    /\ state = PaperAnalysisState(None, None, None, None)
    /\ invoked = {}
    /\ raised_in = {}
    /\ futures = [i \in Analysts |-> None]
    /\ completion = <<>>
    /\ individual_analyses = <<>>
    /\ critic = [w \in Workers |-> CriticIdle]
    /\ computer = [destroyed |-> FALSE, users |-> {},
                   used_after_destroy |-> FALSE]
    /\ RetryIdle /\ MergeIdle /\ RunIdle /\ LogIdle /\ CliIdle /\ ParseIdle /\ ExtractIdle

NextCritic ==
    \/ \E w \in Workers : WorkerCallsCritic(w)
    \/ \E w \in Workers : CriticFor(w)
    \/ \E w \in Workers : CriticStep(w)
    \/ \E w \in Workers : CriticSummarise(w)
    \/ \E w \in Workers : CriticDestroy(w)

SpecCritic == InitCritic /\ [][NextCritic]_vars

(***************************************************************************)
(* utils/retry_utils.py: one call of a function decorated with             *)
(* retry_with_exponential_backoff, for every choice of the decorator's     *)
(* arguments and every behaviour of the decorated function.                *)
(***************************************************************************)
MaxRetriesBound == 3    \* max_retries ranges over 0..MaxRetriesBound
MaxDelayBound == 3      \* initial_delay and max_delay range over 1..MaxDelayBound
MaxFactorBound == 2     \* backoff_factor ranges over 1..MaxFactorBound

\* The allow lists of the calls: that of _call_llm, and one that also lists
\* the error the other does not.
AllowLists == {CallLLMExceptions, {"RateLimitError", "IndexError"}}

\* What the decorated function does on each of its invocations.
RetryScripts == [1..(MaxRetriesBound + 1) -> AttemptOutcomes]

InitRetry ==
    /\ pc = "retry"
    /\ state = PaperAnalysisState(None, None, None, None)
    /\ invoked = {}
    /\ raised_in = {}
    /\ futures = [i \in Analysts |-> None]
    /\ completion = <<>>
    /\ individual_analyses = <<>>
    /\ critic = [w \in Workers |-> CriticIdle]
    /\ computer = [destroyed |-> FALSE, users |-> {},
                   used_after_destroy |-> FALSE]
    /\ retry_call \in [max_retries : 0..MaxRetriesBound,
                       initial_delay : 1..MaxDelayBound,
                       backoff_factor : 1..MaxFactorBound,
                       max_delay : 1..MaxDelayBound,
                       exceptions : AllowLists,
                       script : RetryScripts]
    /\ retry_result = None
    /\ MergeIdle /\ RunIdle /\ LogIdle /\ CliIdle /\ ParseIdle /\ ExtractIdle

\* The decorated function is called once; the wrapper runs to its end.
CallDecorated ==
    /\ retry_result = None
    /\ retry_result' = retry_with_exponential_backoff(
                           retry_call.max_retries, retry_call.initial_delay,
                           retry_call.backoff_factor, retry_call.max_delay,
                           retry_call.exceptions, retry_call.script)
    /\ UNCHANGED <<retry_call, outside_retry>>

NextRetry == CallDecorated

SpecRetry == InitRetry /\ [][NextRetry]_vars

(***************************************************************************)
(* agents/research_orchestrator.py: the local merge of                     *)
(* consolidate_analyses (lines 164-194), for every list of analyses.       *)
(***************************************************************************)
MaxAnalyses == 2    \* length of the list handed to consolidate_analyses

ClaimLists == {<<"x", "y">>, <<"y", "z">>, <<"z", "x", "z">>}

DerivationLists == {<<>>, <<"d", "e", "d">>}

MetricMaps == {{}, {<<"acc", "1">>}, {<<"acc", "2">>, <<"f1", "3">>}}

\* methodology_summary, tldr and eli5 of an analysis.
Summaries == {<<"", "", "">>, <<"m1", "", "e1">>, <<"m2", "t2", "">>}

MergeAnalyses ==
    {AnalysisResult(k, m, s[1], d, s[2], s[3]) :
        k \in ClaimLists, m \in MetricMaps, d \in DerivationLists,
        s \in Summaries}

InitMerge ==
    /\ pc = "merge"
    /\ state = PaperAnalysisState(None, None, None, None)
    /\ invoked = {}
    /\ raised_in = {}
    /\ futures = [i \in Analysts |-> None]
    /\ completion = <<>>
    /\ individual_analyses = <<>>
    /\ critic = [w \in Workers |-> CriticIdle]
    /\ computer = [destroyed |-> FALSE, users |-> {},
                   used_after_destroy |-> FALSE]
    /\ merge_input \in UNION {[1..n -> MergeAnalyses] : n \in 0..MaxAnalyses}
    /\ merge_result = None
    /\ RetryIdle /\ RunIdle /\ LogIdle /\ CliIdle /\ ParseIdle /\ ExtractIdle

\* consolidate_analyses is called and its primary path fails inside the try
\* statement: the call raises, or the answer does not validate.
LocalMerge ==
    /\ merge_result = None
    /\ \E call \in {"ok", "error"}, response_text \in ConsolidationResponses :
          /\ call = "error" \/ response_text = NotJson
          /\ merge_result' = consolidate_analyses(merge_input, TRUE, call,
                                                  response_text).value
    /\ UNCHANGED <<merge_input, outside_merge>>

NextMerge == LocalMerge

SpecMerge == InitMerge /\ [][NextMerge]_vars

(***************************************************************************)
(* agents/research_orchestrator.py: ResearchOrchestrator.run, the pool of  *)
(* paper pipelines and the aggregation of their results.                   *)
(***************************************************************************)
MaxPapers == 3    \* papers the search returns, and num_papers
MaxVms == 2       \* num_vms

\* What search_arxiv returns is the answer of the arXiv service: any number of
\* papers from none to MaxPapers, whatever max_results asked for.
Found == 0..MaxPapers

\* The states _process_single_paper returns: Extract failed; Consolidate
\* raised; Synthesize raised; the report is the empty text; a report.
PipelineResults ==
    {PaperAnalysisState(None, None, None, None),
     PaperAnalysisState(ContentJson, None, None, None),
     PaperAnalysisState(ContentJson, AnalysisMerged, None, None),
     PaperAnalysisState(ContentJson, AnalysisMerged, None, [text |-> <<>>]),
     PaperAnalysisState(ContentJson, AnalysisMerged, None,
                        [text |-> <<"# Report">>])}

\* Mutant of max_workers: the pool has one thread per submitted paper.
max_workers_per_paper(num_vms, submitted) == submitted

\* ThreadPoolExecutor(max_workers=num_vms) (line 215).
max_workers(num_vms, submitted) == num_vms

\* Mutant of Running: a pipeline that has ended keeps its thread of the pool.
Running_KeepsThread == {i \in 1..Len(tasks) : tasks[i].status # "queued"}

Running == {i \in 1..Len(tasks) : tasks[i].status = "running"}

\* Mutant of AfterPaperFailure: the error of future.result() leaves run.
AfterPaperFailure_Propagates == "raised"

\* except Exception as e (lines 227-228): the loop goes on with the next future.
AfterPaperFailure == "await"

\* if state.final_report (line 240): neither None nor the empty text.
truthy(final_report) == final_report # None /\ final_report.text # <<>>

\* Lines 238-243: one section per aggregated state that has a report.
RECURSIVE final_markdown_output(_, _)
final_markdown_output(states, n) ==
    IF n = 0 THEN <<>>
    ELSE LET front == final_markdown_output(states, n - 1) IN
         IF truthy(states[n].state.final_report)
         THEN Append(front, [paper |-> states[n].paper,
                             text |-> states[n].state.final_report.text])
         ELSE front

InitRun ==
    /\ pc = "run"
    /\ state = PaperAnalysisState(None, None, None, None)
    /\ invoked = {}
    /\ raised_in = {}
    /\ futures = [i \in Analysts |-> None]
    /\ completion = <<>>
    /\ individual_analyses = <<>>
    /\ critic = [w \in Workers |-> CriticIdle]
    /\ computer = [destroyed |-> FALSE, users |-> {},
                   used_after_destroy |-> FALSE]
    /\ \E num_papers \in 1..MaxPapers, num_vms \in 1..MaxVms :
          run = [pc |-> "search", num_papers |-> num_papers,
                 num_vms |-> num_vms, all_analysis_states |-> <<>>, i |-> 1,
                 outcome |-> "", report |-> <<>>, completed |-> <<>>,
                 caught |-> <<>>, thoughts |-> <<>>]
    /\ tasks = <<>>
    /\ RetryIdle /\ MergeIdle /\ LogIdle /\ CliIdle /\ ParseIdle /\ ExtractIdle

\* Lines 197-219: num_papers is clipped, the search is made and one pipeline
\* is submitted per paper found.
search_and_submit ==
    /\ run.pc = "search"
    /\ \E found \in Found :
          /\ run' = [run EXCEPT
                 !.num_papers = Min(run.num_papers, run.num_vms),
                 !.pc = IF found = 0 THEN "returned" ELSE "await",
                 !.outcome = IF found = 0 THEN "No papers found." ELSE ""]
          /\ tasks' = [i \in 1..found |-> [status |-> "queued", state |-> None]]
    /\ UNCHANGED outside_run

\* A thread of the pool takes the oldest submitted pipeline from the queue.
worker_starts(i) ==
    /\ i \in 1..Len(tasks)
    /\ tasks[i].status = "queued"
    /\ \A j \in 1..(i - 1) : tasks[j].status # "queued"
    /\ Cardinality(Running) < max_workers(run.num_vms, Len(tasks))
    /\ tasks' = [tasks EXCEPT ![i].status = "running"]
    /\ UNCHANGED <<run, outside_run>>

\* _process_single_paper of paper i returns its state, or raises.
_process_single_paper(i) ==
    /\ i \in 1..Len(tasks)
    /\ tasks[i].status = "running"
    /\ \/ \E result \in PipelineResults :
             tasks' = [tasks EXCEPT ![i] = [status |-> "returned",
                                            state |-> result]]
       \/ tasks' = [tasks EXCEPT ![i] = [status |-> "raised", state |-> None]]
    /\ run' = [run EXCEPT !.completed = Append(@, i)]
    /\ UNCHANGED outside_run

\* What the except clause of lines 227-228 appends to the activity log: its
\* body is one print to the console, no logger is called.
on_paper_error(paper) == <<>>

\* Mutant of awaited: the loop takes the futures as they complete.
awaited_as_completed(k, completed) ==
    IF k <= Len(completed) THEN completed[k] ELSE k

\* for i, future in enumerate(futures) (line 221): the k-th round of the loop
\* blocks on the k-th submitted future.
awaited(k, completed) == k

\* One round of the loop of lines 221-228: future.result() of the next future.
future_result ==
    /\ run.pc = "await"
    /\ tasks[awaited(run.i, run.completed)].status \in {"returned", "raised"}
    /\ LET next == IF run.i = Len(tasks) THEN "format" ELSE "await"
           paper == awaited(run.i, run.completed)
       IN
       run' = IF tasks[paper].status = "returned"
              THEN [run EXCEPT
                       !.all_analysis_states =
                           Append(@, [paper |-> paper,
                                      state |-> tasks[paper].state]),
                       !.i = run.i + 1,
                       !.pc = next]
              ELSE IF AfterPaperFailure = "await"
              THEN [run EXCEPT !.i = run.i + 1, !.pc = next,
                               !.caught = Append(@, paper),
                               !.thoughts = @ \o on_paper_error(paper)]
              ELSE [run EXCEPT !.pc = AfterPaperFailure]
    /\ UNCHANGED <<tasks, outside_run>>

\* Lines 230-254: the no-results return, or the report is built and written.
format_results ==
    /\ run.pc = "format"
    /\ IF run.all_analysis_states = <<>>
       THEN run' = [run EXCEPT !.pc = "returned",
                               !.outcome = "No analyses were generated."]
       ELSE \E write \in {"ok", "error"} :
               run' = [run EXCEPT
                          !.report = final_markdown_output(
                                         run.all_analysis_states,
                                         Len(run.all_analysis_states)),
                          !.pc = IF write = "ok" THEN "returned" ELSE "raised",
                          !.outcome = IF write = "ok" THEN "output_filename"
                                      ELSE ""]
    /\ UNCHANGED <<tasks, outside_run>>

NextRun ==
    \/ search_and_submit
    \/ \E i \in 1..MaxPapers : worker_starts(i)
    \/ \E i \in 1..MaxPapers : _process_single_paper(i)
    \/ future_result
    \/ format_results

SpecRun == InitRun /\ [][NextRun]_vars

(***************************************************************************)
(* Termination.  A behaviour is either a run of ResearchOrchestrator.run   *)
(* with its pool of paper pipelines, or one paper pipeline in detail (its  *)
(* retried calls, its analyst pool and the browsing loops of its critic).  *)
(* Every thread that can take a step is scheduled, and every call that     *)
(* leaves the process returns or raises: a step that stays possible is     *)
(* eventually taken.                                                       *)
(***************************************************************************)
InitTermination == Init \/ InitRun

NextTermination ==
    \/ pc # "run" /\ Next
    \/ pc = "run" /\ NextRun

SpecTermination ==
    /\ InitTermination
    /\ [][NextTermination]_vars
    /\ WF_vars(pc # "run" /\ Next)
    /\ WF_vars(pc = "run" /\ NextRun)

(***************************************************************************)
(* utils/cognito_thoughts.py: the loggers of the agents, called from the   *)
(* threads of the pools, appending to the one thoughts file.               *)
(***************************************************************************)
NumLogThreads == 2    \* threads, each calling a logger instance of its own
MaxEvents == 2        \* logging calls a thread makes

LogThreads == 1..NumLogThreads

\* self.agent_name of the logger instance thread t calls.
agent_name(t) ==
    <<"Orchestrator", "AnalystAgent[Skeptic]", "ExtractorAgent",
      "CriticAgent">>[t]

\* The logging methods and the level each passes to _log (lines 85-120).
Methods ==
    {"think", "step", "analyze", "decide", "error", "success", "question",
     "insight", "progress"}

level(method) ==
    CASE method = "think" -> "THINK"
      [] method = "step" -> "STEP"
      [] method = "analyze" -> "ANALYZE"
      [] method = "decide" -> "DECIDE"
      [] method = "error" -> "ERROR"
      [] method = "success" -> "SUCCESS"
      [] method = "question" -> "QUESTION"
      [] method = "insight" -> "INSIGHT"
      [] method = "progress" -> "PROGRESS"

\* The message of a call, as the lines its text has: the callers pass
\* str(e) of the error they caught, and the text of a pydantic
\* ValidationError runs over several lines.
Messages == {<<"message">>, <<"Analysis failed: 1 validation error", "tldr">>}

\* The line break character, as written by the call for event e.
newline(e) ==
    [event |-> e, kind |-> "nl", agent_name |-> "", level |-> "", text |-> "\n"]

\* _format_message: "[timestamp] [agent_name] level: message"; the message is
\* embedded as it is, line breaks included.
RECURSIVE _format_message(_, _, _, _, _)
_format_message(e, name, lvl, message, k) ==
    IF k = 1
    THEN <<[event |-> e, kind |-> "head", agent_name |-> name, level |-> lvl,
            text |-> message[1]]>>
    ELSE _format_message(e, name, lvl, message, k - 1)
             \o <<newline(e),
                  [event |-> e, kind |-> "text", agent_name |-> "",
                   level |-> "", text |-> message[k]]>>

\* What _write_to_file writes: formatted_message + '\n'.
written(t, n, method, message) ==
    Append(_format_message(<<t, n>>, agent_name(t), level(method), message,
                           Len(message)),
           newline(<<t, n>>))

\* Mutant of _file_lock: every logger instance has a lock of its own.
_file_lock_per_instance(t) == t + 1

\* _file_lock is an attribute of the class (line 18): self._file_lock is the
\* same lock for every instance.
_file_lock(t) == 1

WriterIdle(methods, left) ==
    [pc |-> "idle", methods |-> methods, left |-> left, calls |-> <<>>,
     pending |-> <<>>, returned |-> {}, raised |-> {}]

InitLogVars(active, methods) ==
    /\ log_file = <<>>
    /\ file_lock = [l \in 1..(NumLogThreads + 1) |-> 0]
    /\ writers = [t \in LogThreads |->
                     WriterIdle(methods, IF t \in active THEN MaxEvents ELSE 0)]

PaperIdle(label) ==
    /\ pc = label
    /\ state = PaperAnalysisState(None, None, None, None)
    /\ invoked = {}
    /\ raised_in = {}
    /\ futures = [i \in Analysts |-> None]
    /\ completion = <<>>
    /\ individual_analyses = <<>>
    /\ critic = [w \in Workers |-> CriticIdle]
    /\ computer = [destroyed |-> FALSE, users |-> {},
                   used_after_destroy |-> FALSE]

\* Threads of the pools log the errors they catch, concurrently.
InitLog ==
    /\ PaperIdle("log")
    /\ InitLogVars(LogThreads, {"error"})
    /\ RetryIdle /\ MergeIdle /\ RunIdle /\ CliIdle /\ ParseIdle /\ ExtractIdle

\* One thread calls the methods of its logger one after the other.
InitLogCalls ==
    /\ PaperIdle("log")
    /\ InitLogVars({1}, Methods)
    /\ RetryIdle /\ MergeIdle /\ RunIdle /\ CliIdle /\ ParseIdle /\ ExtractIdle

\* A logging method is called: _log formats the message (line 73) and calls
\* _write_to_file.
_log(t) ==
    LET w == writers[t] IN
    /\ w.pc = "idle"
    /\ w.left > 0
    /\ \E method \in w.methods, message \in Messages :
          writers' = [writers EXCEPT ![t] =
              [w EXCEPT !.pc = "acquire",
                        !.left = w.left - 1,
                        !.calls = Append(@, [method |-> method,
                                             message |-> message]),
                        !.pending = written(t, Len(w.calls) + 1, method,
                                            message)]]
    /\ UNCHANGED <<log_file, file_lock, outside_log>>

\* with self._file_lock (line 66): blocks until the lock is free.
acquire(t) ==
    /\ writers[t].pc = "acquire"
    /\ file_lock[_file_lock(t)] = 0
    /\ file_lock' = [file_lock EXCEPT ![_file_lock(t)] = t]
    /\ writers' = [writers EXCEPT ![t].pc = "open"]
    /\ UNCHANGED <<log_file, outside_log>>

\* The error of open or of a write leaves both with statements: the lock is
\* released and the error is raised to the caller of the logging method.
leave(t, how) ==
    /\ file_lock' = [file_lock EXCEPT ![_file_lock(t)] = 0]
    /\ writers' = [writers EXCEPT ![t] =
           [@ EXCEPT !.pc = "idle", !.pending = <<>>,
                     ![how] = @ \cup {Len(writers[t].calls)}]]

\* open(THOUGHTS_FILE, 'a') (line 67).
open_append(t) ==
    /\ writers[t].pc = "open"
    /\ \/ /\ writers' = [writers EXCEPT ![t].pc = "write"]
          /\ UNCHANGED file_lock
       \/ leave(t, "raised")
    /\ UNCHANGED <<log_file, outside_log>>

\* f.write and f.flush (lines 68-69): the text reaches the end of the file
\* piece by piece.
write(t) ==
    /\ writers[t].pc = "write"
    /\ writers[t].pending # <<>>
    /\ \/ /\ log_file' = Append(log_file, Head(writers[t].pending))
          /\ writers' = [writers EXCEPT ![t].pending = Tail(@)]
          /\ UNCHANGED file_lock
       \/ /\ leave(t, "raised")
          /\ UNCHANGED log_file
    /\ UNCHANGED outside_log

\* The file is closed and the lock released; _log prints and returns.
release(t) ==
    /\ writers[t].pc = "write"
    /\ writers[t].pending = <<>>
    /\ leave(t, "returned")
    /\ UNCHANGED <<log_file, outside_log>>

NextLog ==
    \/ \E t \in LogThreads : _log(t)
    \/ \E t \in LogThreads : acquire(t)
    \/ \E t \in LogThreads : open_append(t)
    \/ \E t \in LogThreads : write(t)
    \/ \E t \in LogThreads : release(t)

SpecLog == InitLog /\ [][NextLog]_vars

SpecLogCalls == InitLogCalls /\ [][NextLog]_vars

(***************************************************************************)
(* main.py: the command line, the validation of its arguments, the run of  *)
(* the orchestrator and the exit code of the process.                      *)
(***************************************************************************)
TopicMinLength == 3
TopicMaxLength == 200
MaxNumPapers == 20
MaxNumVms == 10

\* A topic, by what validate_topic looks at: its length, and whether all of
\* its characters are of the classes of the pattern of line 36.
Topics ==
    [length : {TopicMinLength - 1, TopicMinLength, TopicMaxLength,
               TopicMaxLength + 1},
     chars : {"allowed", "other"}]

NumPapersArgs == {0, 1, 3, MaxNumPapers, MaxNumPapers + 1}

NumVmsArgs == {0, 1, 3, MaxNumVms, MaxNumVms + 1}

validate_topic(topic) ==
    IF topic.length < TopicMinLength \/ topic.length > TopicMaxLength
    THEN FALSE
    ELSE topic.chars = "allowed"

\* Mutant of validate_arguments: the check of papers against VMs is missing.
validate_arguments_without_constraint(args) ==
    (IF ~validate_topic(args.topic) THEN {"Invalid topic"} ELSE {})
    \cup (IF args.num_papers < 1 \/ args.num_papers > MaxNumPapers
          THEN {"Number of papers must be between 1 and 20"} ELSE {})
    \cup (IF args.num_vms < 1 \/ args.num_vms > MaxNumVms
          THEN {"Number of VMs must be between 1 and 10"} ELSE {})

\* validate_arguments: the errors found (lines 41-61).
validate_arguments(args) ==
    (IF ~validate_topic(args.topic) THEN {"Invalid topic"} ELSE {})
    \cup (IF args.num_papers < 1 \/ args.num_papers > MaxNumPapers
          THEN {"Number of papers must be between 1 and 20"} ELSE {})
    \cup (IF args.num_vms < 1 \/ args.num_vms > MaxNumVms
          THEN {"Number of VMs must be between 1 and 10"} ELSE {})
    \cup (IF args.num_papers > args.num_vms
          THEN {"Number of papers cannot exceed number of VMs"} ELSE {})

\* system_thoughts.close() (line 213): CognitoThoughts defines no close, so
\* the attribute lookup raises.
system_thoughts_close == "AttributeError"

\* The exit code of the interpreter: 0 when main returns, 1 when SystemExit(1)
\* or any other exception leaves it.
exit_code(pending) == IF pending = "none" THEN 0 ELSE 1

\* The process ends with the exception that is leaving main, if any.
exit(pending) ==
    [cli EXCEPT !.pc = "exited", !.pending = pending,
                !.exit_code = exit_code(pending)]

InitCli ==
    /\ PaperIdle("cli")
    /\ RetryIdle /\ MergeIdle /\ RunIdle /\ LogIdle /\ ParseIdle /\ ExtractIdle
    /\ \E args \in [topic : Topics, num_papers : NumPapersArgs,
                    num_vms : NumVmsArgs],
          api_key \in BOOLEAN :
          cli = [pc |-> "validate", args |-> args, api_key |-> api_key,
                 errors |-> {}, orchestrator |-> FALSE, instance |-> "none",
                 run_started |-> FALSE, completed |-> FALSE,
                 interrupted |-> FALSE, pending |-> "none", exit_code |-> -1]

\* Lines 124-130: sys.exit(1) when validate_arguments found errors.
validate ==
    /\ cli.pc = "validate"
    /\ LET errors == validate_arguments(cli.args) IN
       cli' = IF errors # {}
              THEN [exit("SystemExit(1)") EXCEPT !.errors = errors]
              ELSE [cli EXCEPT !.pc = "check_api_key"]
    /\ UNCHANGED outside_cli

\* Lines 132-137.
check_api_key ==
    /\ cli.pc = "check_api_key"
    /\ cli' = IF ~cli.api_key THEN exit("SystemExit(1)")
              ELSE [cli EXCEPT !.pc = "startup"]
    /\ UNCHANGED outside_cli

\* Lines 139-166, before the try statement: the two logger calls return or
\* raise.
startup ==
    /\ cli.pc = "startup"
    /\ \E logged \in {"ok", "error"} :
          cli' = IF logged = "ok" THEN [cli EXCEPT !.pc = "construct"]
                 ELSE exit("OSError")
    /\ UNCHANGED outside_cli

\* Line 173: ResearchOrchestrator() builds the CriticAgent, whose
\* RemoteExecutor creates the remote desktop instance (critic_agent.py lines
\* 16 and 37); the agents built after it may still fail.
construct ==
    /\ cli.pc = "construct"
    /\ \E built \in {"ok", "error before Computer()", "error after Computer()"} :
          cli' = [cli EXCEPT
                     !.orchestrator = built = "ok",
                     !.instance = IF built = "error before Computer()"
                                  THEN "none" ELSE "held",
                     !.pc = IF built = "ok" THEN "call_run" ELSE "except",
                     !.pending = IF built = "ok" THEN "none" ELSE "Exception"]
    /\ UNCHANGED outside_cli

\* Lines 175-182: orchestrator.run is called.
call_run ==
    /\ cli.pc = "call_run"
    /\ \E logged \in {"ok", "error"} :
          cli' = IF logged = "ok"
                 THEN [cli EXCEPT !.pc = "running", !.run_started = TRUE]
                 ELSE [cli EXCEPT !.pc = "except", !.pending = "Exception"]
    /\ UNCHANGED outside_cli

\* A pipeline of the run reaches the finally clause of CriticAgent.run:
\* destroy is called on the instance and returns or raises.
critic_finally ==
    /\ cli.pc \in {"running", "shutdown"}
    /\ cli.instance = "held"
    /\ \E destroy \in {"ok", "error"} :
          cli' = [cli EXCEPT !.instance = IF destroy = "ok" THEN "destroyed"
                                          ELSE "held"]
    /\ UNCHANGED outside_cli

\* orchestrator.run returns, or raises an error.
run_ends ==
    /\ cli.pc = "running"
    /\ \E how \in {"returned", "raised"}, logged \in {"ok", "error"} :
          cli' = IF how = "returned" /\ logged = "ok"
                 THEN [cli EXCEPT !.pc = "finally", !.completed = TRUE]
                 ELSE [cli EXCEPT !.pc = "except", !.pending = "Exception",
                                  !.completed = how = "returned"]
    /\ UNCHANGED outside_cli

\* The user interrupts: KeyboardInterrupt is raised in the main thread, which
\* is inside orchestrator.run.  Leaving the with statement of the pool waits
\* for the submitted pipelines (research_orchestrator.py line 215).
KeyboardInterrupt ==
    /\ cli.pc = "running"
    /\ cli' = [cli EXCEPT !.pc = "shutdown", !.interrupted = TRUE]
    /\ UNCHANGED outside_cli

\* The pool has shut down and the interrupt reaches the try statement of main.
interrupt_propagates ==
    /\ cli.pc = "shutdown"
    /\ cli' = [cli EXCEPT !.pc = "except", !.pending = "KeyboardInterrupt"]
    /\ UNCHANGED outside_cli

\* Lines 197-205: both handlers log the error and call sys.exit(1).
except_clause ==
    /\ cli.pc = "except"
    /\ \E logged \in {"ok", "error"} :
          cli' = [cli EXCEPT !.pc = "finally",
                             !.pending = IF logged = "ok" THEN "SystemExit(1)"
                                         ELSE "OSError"]
    /\ UNCHANGED outside_cli

\* Lines 206-213: the monitor thread is stopped and system_thoughts.close()
\* is called; what it raises replaces the exception that was leaving.
finally_clause ==
    /\ cli.pc = "finally"
    /\ cli' = exit(IF system_thoughts_close = "ok" THEN cli.pending
                   ELSE system_thoughts_close)
    /\ UNCHANGED outside_cli

NextCli ==
    \/ validate
    \/ check_api_key
    \/ startup
    \/ construct
    \/ call_run
    \/ critic_finally
    \/ run_ends
    \/ KeyboardInterrupt
    \/ interrupt_propagates
    \/ except_clause
    \/ finally_clause

SpecCli == InitCli /\ [][NextCli]_vars

(***************************************************************************)
(* One model response on its way through a stage that parses it: Extract   *)
(* (ExtractorAgent.run), Analyze (AnalystAgent.run) and Consolidate        *)
(* (consolidate_analyses).                                                 *)
(***************************************************************************)
ParsingStages == {"Extract", "Analyze", "Consolidate"}

\* The JSON types a value can have in place of the declared one.
JsonTypes == {"int", "str", "List[str]"}

ContentWithFigures ==
    [abstract |-> "a", introduction |-> "i", methodology |-> "m",
     results |-> "r", conclusion |-> "c", full_text |-> "f",
     figures |-> <<>>]

\* The texts a model can answer with: no JSON, or an object carrying any of
\* the keys of base, at most one of them with a value of another type.
ResponseTexts(base) ==
    {NotJson}
    \cup {JsonObject([k \in keys |-> base[k]]) : keys \in SUBSET DOMAIN base}
    \cup UNION {{JsonMistyped([k \in keys |-> base[k]], kt[1], kt[2]) :
                    kt \in {x \in keys \X JsonTypes :
                               x[2] # DeclaredType[x[1]]}} :
                keys \in SUBSET DOMAIN base}

TextsOf(stage) ==
    IF stage = "Extract" THEN ResponseTexts(ContentWithFigures)
    ELSE ResponseTexts(AnalysisX)

\* The retried call of the stage: answered at once, or failed for good.
ParseScripts == {<<"ok">>, <<"IndexError">>}

\* The analyses Consolidate was given.
ParseAnalyses == <<AnalysisFailed, AnalysisX>>

InitParse ==
    /\ PaperIdle("parse")
    /\ RetryIdle /\ MergeIdle /\ RunIdle /\ LogIdle /\ CliIdle /\ ExtractIdle
    /\ \E stage \in ParsingStages, script \in ParseScripts,
          serialised \in BOOLEAN :
          \E text \in TextsOf(stage) :
             /\ stage # "Consolidate" => serialised
             /\ parse = [pc |-> "called", stage |-> stage, script |-> script,
                         serialised |-> serialised, text |-> text,
                         received |-> FALSE, parsed |-> None,
                         result |-> None]

\* The stage has the text of the response in hand: the prompt was built and
\* the call returned (extractor_agent.py lines 161-162, analyst_agent.py lines
\* 43-44, research_orchestrator.py lines 144-152).
receive_response ==
    /\ parse.pc = "called"
    /\ parse.serialised
    /\ ~_call_llm(parse.script).raised
    /\ parse' = [parse EXCEPT !.pc = "received", !.received = TRUE]
    /\ UNCHANGED outside_parse

\* The text is parsed into the record of the stage.
model_validate_json ==
    /\ parse.pc = "received"
    /\ parse' = [parse EXCEPT
                    !.pc = "parsed",
                    !.parsed = IF parse.stage = "Extract"
                               THEN StructuredContent_model_validate_json(parse.text)
                               ELSE AnalysisResult_model_validate_json(parse.text)]
    /\ UNCHANGED outside_parse

\* The stage returns or raises.
stage_returns ==
    /\ \/ parse.pc = "parsed"
       \/ parse.pc = "called"
            /\ (~parse.serialised \/ _call_llm(parse.script).raised)
    /\ parse' = [parse EXCEPT
                    !.pc = "returned",
                    !.result =
                        CASE parse.stage = "Extract" ->
                                 ExtractorAgent_run("latex_text", "pdf_text",
                                                    parse.script, parse.text)
                          [] parse.stage = "Analyze" ->
                                 AnalystAgent_run(parse.script, parse.text)
                          [] parse.stage = "Consolidate" ->
                                 consolidate_analyses(
                                     ParseAnalyses, parse.serialised,
                                     IF _call_llm(parse.script).raised
                                     THEN "error" ELSE "ok",
                                     parse.text)]
    /\ UNCHANGED outside_parse

NextParse ==
    \/ receive_response
    \/ model_validate_json
    \/ stage_returns

SpecParse == InitParse /\ [][NextParse]_vars

(***************************************************************************)
(* agents/extractor_agent.py, ExtractorAgent.run step by step.  A text is  *)
(* given by the number of its characters.                                  *)
(***************************************************************************)
PromptLimit == 50000
FallbackLimit == 10000

Text(chars) == [chars |-> chars]

\* full_text[:limit]
slice(full_text, limit) == Text(Min(limit, full_text.chars))

\* The lengths of the text a path extracts, besides the empty text.
TextLengths ==
    {1, FallbackLimit, FallbackLimit + 1, PromptLimit, PromptLimit + 1}

\* Mutant of ExtractorCatches: an except clause that names only the API
\* errors.
ExtractorCatches_ApiErrorsOnly(error) == error \in CallLLMExceptions

\* The except clause of line 174: which errors of the try block it catches.
ExtractorCatches(error) == TRUE

\* The content returned when structuring failed (lines 177-185).
degraded_content(full_text, figures) ==
    [abstract |-> "metadata.abstract",
     introduction |-> "Content extraction failed",
     methodology |-> "Content extraction failed",
     results |-> "Content extraction failed",
     conclusion |-> "Content extraction failed",
     full_text |-> slice(full_text, FallbackLimit),
     figures |-> figures]

\* run ends by raising error.
extract_raises(error) ==
    [extract EXCEPT !.pc = "done", !.error = error,
                    !.result = [raised |-> TRUE, value |-> None]]

InitExtract ==
    /\ PaperIdle("extract")
    /\ RetryIdle /\ MergeIdle /\ RunIdle /\ LogIdle /\ CliIdle /\ ParseIdle
    /\ extract = [pc |-> "download_paper_source", full_text |-> None,
                  figures |-> None, prompt |-> None, result |-> None,
                  error |-> "none", structuring |-> "none",
                  latex_text |-> FALSE, pdf_ran |-> FALSE,
                  pdf_text |-> FALSE, produced |-> None]

\* Line 117-119 and 129-130: the source archive is there, or is not, or the
\* download raises.  Without an archive neither full_text nor figures is
\* assigned.
download_paper_source ==
    /\ extract.pc = "download_paper_source"
    /\ \E source_path \in {"path", "None", "raises"} :
          extract' = CASE source_path = "path" ->
                              [extract EXCEPT !.pc = "extract_from_latex_source"]
                       [] source_path = "None" ->
                              [extract EXCEPT !.pc = "if not full_text"]
                       [] source_path = "raises" -> extract_raises("Exception")
    /\ UNCHANGED outside_extract

\* Lines 120-128: extract_from_latex_source returns the text and the
\* captions, or "" and [] after an error; without text both are reset.
extract_from_latex_source ==
    /\ extract.pc = "extract_from_latex_source"
    /\ \E chars \in {0} \cup TextLengths,
          captions \in {<<>>, <<"latex caption">>} :
          extract' = IF chars > 0
                     THEN [extract EXCEPT
                              !.pc = "if not full_text",
                              !.full_text = Text(chars),
                              !.figures = captions,
                              !.latex_text = TRUE,
                              !.produced = [by |-> "latex", figures |-> captions]]
                     ELSE [extract EXCEPT
                              !.pc = "if not full_text",
                              !.full_text = Text(0),
                              !.figures = <<>>]
    /\ UNCHANGED outside_extract

\* Line 133: the test reads full_text, which is unbound when there was no
\* archive.
if_not_full_text ==
    /\ extract.pc = "if not full_text"
    /\ extract' = IF extract.full_text = None
                  THEN extract_raises("UnboundLocalError")
                  ELSE IF extract.full_text.chars = 0
                  THEN [extract EXCEPT !.pc = "download_paper"]
                  ELSE [extract EXCEPT !.pc = "structure"]
    /\ UNCHANGED outside_extract

\* Lines 134-138.
download_paper ==
    /\ extract.pc = "download_paper"
    /\ \E pdf_path \in {"path", "None", "raises"} :
          extract' = CASE pdf_path = "path" ->
                              [extract EXCEPT !.pc = "extract_from_pdf",
                                              !.pdf_ran = TRUE]
                       [] pdf_path = "None" ->
                              [extract_raises("ValueError") EXCEPT
                                  !.pdf_ran = TRUE]
                       [] pdf_path = "raises" ->
                              [extract_raises("Exception") EXCEPT
                                  !.pdf_ran = TRUE]
    /\ UNCHANGED outside_extract

\* Lines 140-144: extract_from_pdf returns the text and the images, or ""
\* and [] after an error.
extract_from_pdf ==
    /\ extract.pc = "extract_from_pdf"
    /\ \E chars \in {0} \cup TextLengths, images \in {<<>>, <<"pdf image">>} :
          extract' = IF chars > 0
                     THEN [extract EXCEPT
                              !.pc = "structure",
                              !.full_text = Text(chars),
                              !.figures = images,
                              !.pdf_text = TRUE,
                              !.produced = [by |-> "pdf", figures |-> images]]
                     ELSE [extract_raises("ValueError") EXCEPT
                              !.full_text = Text(0), !.figures = <<>>]
    /\ UNCHANGED outside_extract

\* Lines 151-158: the prompt is built from full_text[:50000].
structure ==
    /\ extract.pc = "structure"
    /\ extract' = [extract EXCEPT
                      !.pc = "_call_llm",
                      !.prompt = slice(extract.full_text, PromptLimit)]
    /\ UNCHANGED outside_extract

\* What the except clause of lines 174-185 does with an error of the try
\* block: it returns the degraded content.
except_clause_of_run(error) ==
    IF ExtractorCatches(error)
    THEN [extract EXCEPT
             !.pc = "done", !.structuring = "failed",
             !.result = [raised |-> FALSE,
                         value |-> degraded_content(extract.full_text,
                                                    extract.figures)]]
    ELSE [extract_raises(error) EXCEPT !.structuring = "failed"]

\* Lines 161-162: the retried call.
call_llm ==
    /\ extract.pc = "_call_llm"
    /\ \E script \in Scripts :
          LET message == _call_llm(script) IN
          extract' = IF message.raised
                     THEN except_clause_of_run(message.error)
                     ELSE [extract EXCEPT !.pc = "model_validate_json"]
    /\ UNCHANGED outside_extract

\* Lines 164-172: the parse; the figures of the extraction replace those of
\* the response.
parse_content ==
    /\ extract.pc = "model_validate_json"
    /\ \E response_text \in ExtractorResponses :
          LET parsed == StructuredContent_model_validate_json(response_text) IN
          extract' = IF parsed.raised
                     THEN except_clause_of_run("ValidationError")
                     ELSE [extract EXCEPT
                              !.pc = "done", !.structuring = "ok",
                              !.result =
                                  [raised |-> FALSE,
                                   value |-> [parsed.value EXCEPT
                                                 !.figures = extract.figures]]]
    /\ UNCHANGED outside_extract

NextExtract ==
    \/ download_paper_source
    \/ extract_from_latex_source
    \/ if_not_full_text
    \/ download_paper
    \/ extract_from_pdf
    \/ structure
    \/ call_llm
    \/ parse_content

SpecExtract == InitExtract /\ [][NextExtract]_vars

(***************************************************************************)
(* Properties of the per-paper pipeline (Spec).                            *)
(***************************************************************************)
StateFields == {"structured_content", "analysis", "critique", "final_report"}

\* C1: a paper whose Extract stage returned content leaves the pipeline with
\* a non-null final report, whatever failed in the later stages.
C1_ExtractedPaperHasReport ==
    (pc = "done" /\ state.structured_content # None)
        => state.final_report # None

\* C2: when Extract fails fatally the pipeline returns a state with every
\* field but the metadata null, and no later stage has been invoked.
C2_ExtractFailureStopsPaper ==
    "Extract" \in raised_in
        => /\ pc = "done"
           /\ \A f \in StateFields : state[f] = None
           /\ invoked = {"Extract"}

C2_Witness ==
    /\ pc = "done"
    /\ "Extract" \in raised_in
    /\ invoked = {"Extract"}

\* C3: the pipeline returns without having invoked Synthesize only if Extract
\* failed fatally.
C3_OnlyExtractEndsEarly ==
    (pc = "done" /\ "Synthesize" \notin invoked) => "Extract" \in raised_in

\* C4: a field of the PaperAnalysisState that holds a non-null value keeps
\* that value in every later step of the pipeline.
C4_FieldsNeverOverwritten ==
    [][\A f \in StateFields : state[f] # None => state'[f] = state[f]]_vars

C4_Witness ==
    /\ pc = "done"
    /\ \A f \in StateFields : state[f] # None

\* C5: the ensemble returns one result per persona, in persona order, for
\* every completion order; a persona whose call or parse failed holds the
\* placeholder at its position, the others hold their own results.
C5_EnsembleInPersonaOrder ==
    pc = "consolidate"
        => /\ Len(individual_analyses) = Len(analyst_personas)
           /\ \A i \in Analysts :
                 /\ individual_analyses[i].by = analyst_personas[i]
                 /\ individual_analyses[i].failed
                       <=> individual_analyses[i].value = AnalysisFailed

C5_Witness ==
    /\ pc = "consolidate"
    /\ completion = <<3, 2, 1, 5, 4>>
    /\ \A i \in Analysts : individual_analyses[i].failed <=> i = 2

\* C6: Analyze never raises; when the retried call or the parse failed it
\* returns the placeholder: one key claim noting the failure, no metrics, no
\* derivations, failure text in the three summaries.
C6_AnalyzeNeverRaises ==
    /\ pc # "raised"
    /\ "Analyze" \notin raised_in
    /\ \A i \in Analysts :
          futures[i] # None
              => /\ ~futures[i].raised
                 /\ futures[i].failed
                       => /\ futures[i].value.key_claims
                                 = <<"Analysis failed due to error">>
                          /\ futures[i].value.metrics_and_results = {}
                          /\ futures[i].value.mathematical_derivations = <<>>
                          /\ futures[i].value.methodology_summary
                                 = "Error during analysis"
                          /\ futures[i].value.tldr
                                 = "Analysis could not be completed"
                          /\ futures[i].value.eli5
                                 = "There was a problem analyzing this paper"

C6_Witness ==
    /\ pc = "analyze"
    /\ \E i, j \in Analysts :
          /\ futures[i] # None /\ futures[i].failed
          /\ futures[j] # None /\ ~futures[j].failed

\* C7: Consolidate never raises to its caller: every failure of its primary
\* path ends in the local merge.
C7_ConsolidateNeverRaises == "Consolidate" \notin raised_in

\* C8: every execution of the Critique stage of a paper invokes destroy on
\* the remote desktop instance exactly once.
C8_DestroyExactlyOnce ==
    critic[PaperThread].pc \in {"returned", "raised"}
        => critic[PaperThread].destroy_calls = 1

\* C10: Critique never raises to its caller.
C10_CritiqueNeverRaises ==
    /\ critic[PaperThread].pc # "raised"
    /\ "Critique" \notin raised_in

(***************************************************************************)
(* Properties of the shared CriticAgent (SpecCritic).                      *)
(***************************************************************************)
\* C9: the remote desktop instance is used by one execution of Critique only,
\* and no operation is issued on it after it has been destroyed.
C9_InstanceExclusivelyOwned ==
    /\ Cardinality(computer.users) <= 1
    /\ ~computer.used_after_destroy

(***************************************************************************)
(* Properties of the Synthesize stage (Spec).                              *)
(***************************************************************************)
\* C11: Synthesize never raises to its caller, for every analysis and every
\* critique the Critique stage hands over, sources that carry only some of
\* title, url and authors included.
C11_SynthesizeNeverRaises == "Synthesize" \notin raised_in

(***************************************************************************)
(* Properties of the retry wrapper (SpecRetry).                            *)
(***************************************************************************)
\* The number of leading invocations of the call that fail with an
\* allow-listed error.
LeadingFailures ==
    CHOOSE n \in 0..Len(retry_call.script) :
        /\ \A k \in 1..n : retry_call.script[k] \in retry_call.exceptions
        /\ n < Len(retry_call.script)
               => retry_call.script[n + 1] \notin retry_call.exceptions

\* C12: an operation that fails with allow-listed errors on its first N
\* invocations and then succeeds is invoked N+1 times and its value returned
\* when max_retries >= N; an operation that fails with allow-listed errors on
\* all of its max_retries+1 invocations makes the wrapper raise after exactly
\* max_retries+1 invocations.
C12_InvocationCount ==
    retry_result # None
        => LET N == LeadingFailures IN
           /\ (N <= retry_call.max_retries /\ retry_call.script[N + 1] = "ok")
                  => ~retry_result.raised /\ retry_result.calls = N + 1
           /\ N > retry_call.max_retries
                  => /\ retry_result.raised
                     /\ retry_result.calls = retry_call.max_retries + 1

C12_Witness ==
    /\ retry_result # None
    /\ LeadingFailures = 2
    /\ retry_call.script[3] = "ok"
    /\ retry_call.max_retries = 2
    /\ retry_result.calls = 3

\* C13: the error raised when every attempt has been used is the last caught
\* error tagged as RetriesExhausted: the caller can tell it from the same
\* error propagated by a call that never retried it.
C13_ExhaustionIsTagged ==
    (retry_result # None /\ LeadingFailures > retry_call.max_retries)
        => LET last == retry_call.script[retry_call.max_retries + 1]
               never_retried ==
                   retry_with_exponential_backoff(
                       retry_call.max_retries, retry_call.initial_delay,
                       retry_call.backoff_factor, retry_call.max_delay,
                       {}, <<last>>)
           IN  /\ retry_result.raised
               /\ retry_result.error # never_retried.error

\* C14: an error that is not allow-listed propagates at once: the operation
\* has been invoked up to and including that attempt, nothing is slept after
\* it and no later invocation happens.
C14_OtherErrorsPropagate ==
    retry_result # None
        => LET N == LeadingFailures IN
           (N <= retry_call.max_retries /\ retry_call.script[N + 1] # "ok")
               => /\ retry_result.raised
                  /\ retry_result.error = retry_call.script[N + 1]
                  /\ retry_result.calls = N + 1
                  /\ Len(retry_result.slept) = N

C14_Witness ==
    /\ retry_result # None
    /\ retry_call.exceptions = CallLLMExceptions
    /\ retry_call.max_retries = 3
    /\ retry_call.script[1] = "RateLimitError"
    /\ retry_call.script[2] = "IndexError"
    /\ retry_result.raised
    /\ retry_result.calls = 2

\* C15: every delay the wrapper sleeps is at most max_delay, for all values
\* of the arguments, initial_delay greater than max_delay included.
C15_DelaysCapped ==
    retry_result # None
        => \A k \in 1..Len(retry_result.slept) :
              retry_result.slept[k] <= retry_call.max_delay

(***************************************************************************)
(* Properties of the local merge (SpecMerge).                              *)
(***************************************************************************)
\* The lists of one field of the inputs, one after the other.
RECURSIVE Concatenated(_, _)
Concatenated(field, n) ==
    IF n = 0 THEN <<>>
    ELSE Concatenated(field, n - 1) \o merge_input[n][field]

\* The position of the first occurrence of x in xs.
FirstIndex(xs, x) == CHOOSE i \in 1..Len(xs) : xs[i] = x /\ \A j \in 1..(i - 1) : xs[j] # x

\* merged is all with every duplicate after its first occurrence removed.
FirstOccurrences(merged, all) ==
    /\ {merged[i] : i \in 1..Len(merged)} = {all[i] : i \in 1..Len(all)}
    /\ \A i, j \in 1..Len(merged) :
          i < j => FirstIndex(all, merged[i]) < FirstIndex(all, merged[j])

\* C16: the key claims, and the derivations, of the local merge are the
\* concatenation of the inputs' lists in input order with every exact
\* duplicate after its first occurrence removed.
C16_ListsDeduplicatedInOrder ==
    merge_result # None
        => /\ FirstOccurrences(merge_result.key_claims,
                               Concatenated("key_claims", Len(merge_input)))
           /\ FirstOccurrences(merge_result.mathematical_derivations,
                               Concatenated("mathematical_derivations",
                                            Len(merge_input)))

C16_Witness ==
    /\ merge_result # None
    /\ Len(merge_input) = 2
    /\ merge_input[1].key_claims = <<"x", "y">>
    /\ merge_input[2].key_claims = <<"y", "z">>
    /\ merge_result.key_claims = <<"x", "y", "z">>

\* The keys of a metrics map.
Keys(metrics) == {item[1] : item \in metrics}

\* C17: the metrics map of the local merge has the union of the inputs' keys,
\* and each key maps to the value of the last input that contains it.
C17_MetricsLastWins ==
    merge_result # None
        => /\ Keys(merge_result.metrics_and_results)
                 = UNION {Keys(merge_input[i].metrics_and_results) :
                             i \in 1..Len(merge_input)}
           /\ \A item \in merge_result.metrics_and_results :
                 \E i \in 1..Len(merge_input) :
                    /\ item \in merge_input[i].metrics_and_results
                    /\ \A j \in (i + 1)..Len(merge_input) :
                          item[1] \notin Keys(merge_input[j].metrics_and_results)
           /\ \A a, b \in merge_result.metrics_and_results :
                 a[1] = b[1] => a = b

C17_Witness ==
    /\ merge_result # None
    /\ Len(merge_input) = 2
    /\ merge_input[1].metrics_and_results = {<<"acc", "2">>, <<"f1", "3">>}
    /\ merge_input[2].metrics_and_results = {<<"acc", "1">>}
    /\ merge_result.metrics_and_results = {<<"acc", "1">>, <<"f1", "3">>}

\* C18: methodology summary, TL;DR and ELI5 of the local merge are each the
\* first non-empty value of the field among the inputs, in input order, and
\* the empty string when every input's value is empty.
C18_SummariesFirstNonEmpty ==
    merge_result # None
        => \A f \in {"methodology_summary", "tldr", "eli5"} :
              LET filled == {i \in 1..Len(merge_input) : merge_input[i][f] # ""}
              IN  IF filled = {}
                  THEN merge_result[f] = ""
                  ELSE \E i \in filled :
                          /\ \A j \in filled : i <= j
                          /\ merge_result[f] = merge_input[i][f]

C18_Witness ==
    /\ merge_result # None
    /\ Len(merge_input) = 2
    /\ merge_input[1].methodology_summary = "m1" /\ merge_input[1].tldr = ""
    /\ merge_input[2].methodology_summary = "m2" /\ merge_input[2].tldr = "t2"
    /\ merge_result.methodology_summary = "m1"
    /\ merge_result.tldr = "t2"
    /\ merge_result.eli5 = "e1"

(***************************************************************************)
(* Properties of a run (SpecRun).                                          *)
(***************************************************************************)
\* C19: at every moment of a run at most num_vms paper pipelines are
\* executing, however many papers the search returned.
C19_AtMostNumVmsRunning == Cardinality(Running) <= run.num_vms

C19_Witness ==
    /\ Len(tasks) > run.num_vms
    /\ Cardinality(Running) = run.num_vms
    /\ \E i \in 1..Len(tasks) : tasks[i].status = "queued"

\* The papers whose pipeline returned a state.
Returned == {i \in 1..Len(tasks) : tasks[i].status = "returned"}

\* C20: a pipeline that raises is caught by the run and left out of the
\* aggregated results; every other submitted pipeline has run to completion
\* and its state is aggregated when the run goes on to format the results.
C20_FailedPaperIsolated ==
    /\ (run.pc = "raised" => run.i > Len(tasks))
    /\ (run.pc = "format" \/ (run.pc \in {"returned", "raised"} /\ tasks # <<>>))
           => /\ \A i \in 1..Len(tasks) :
                    tasks[i].status \in {"returned", "raised"}
              /\ {run.all_analysis_states[k].paper :
                      k \in 1..Len(run.all_analysis_states)} = Returned
              /\ \A k \in 1..Len(run.all_analysis_states) :
                    run.all_analysis_states[k].state
                        = tasks[run.all_analysis_states[k].paper].state

C20_Witness ==
    /\ run.pc = "returned"
    /\ run.outcome = "output_filename"
    /\ Len(tasks) = 3
    /\ tasks[1].status = "raised"
    /\ tasks[2].status = "returned"
    /\ tasks[3].status = "returned"
    /\ Len(run.all_analysis_states) = 2

\* The papers of a list of aggregated states or of report sections, in order.
Papers(entries) == [k \in 1..Len(entries) |-> entries[k].paper]

Increasing(xs) == \A i, j \in 1..Len(xs) : i < j => xs[i] < xs[j]

\* C21: the aggregated results and the sections of the report are in the
\* order in which the pipelines were submitted, for every order in which the
\* pipelines complete.
C21_SubmissionOrder ==
    /\ Increasing(Papers(run.all_analysis_states))
    /\ Increasing(Papers(run.report))

C21_Witness ==
    /\ run.pc = "returned"
    /\ run.completed = <<2, 1, 3>>
    /\ Papers(run.all_analysis_states) = <<1, 2, 3>>
    /\ Papers(run.report) = <<1, 2, 3>>

\* A paper of the run succeeded through at least Extract.
Extracted(i) ==
    tasks[i].status = "returned" /\ tasks[i].state.structured_content # None

\* C22: a run with papers of which none succeeds, each pipeline having raised
\* or failed fatally at Extract, returns the no-results outcome, writes no
\* paper section and does not raise.
C22_NoSuccessIsNoResults ==
    (/\ run.pc \in {"returned", "raised"}
     /\ tasks # <<>>
     /\ \A i \in 1..Len(tasks) : ~Extracted(i))
        => /\ run.pc = "returned"
           /\ run.outcome = "No analyses were generated."
           /\ run.report = <<>>

\* C23: the written report has exactly one section, with non-empty text, for
\* every paper that succeeded through at least Extract, and none for a paper
\* whose Extract failed.
C23_SectionPerExtractedPaper ==
    (run.pc = "returned" /\ run.outcome = "output_filename")
        => /\ \A i \in 1..Len(tasks) :
                 Cardinality({k \in 1..Len(run.report) : run.report[k].paper = i})
                     = IF Extracted(i) THEN 1 ELSE 0
           /\ \A k \in 1..Len(run.report) : run.report[k].text # <<>>

(***************************************************************************)
(* Properties of the activity log (SpecLog, SpecLogCalls).                 *)
(***************************************************************************)
InSection == {t \in LogThreads : writers[t].pc \in {"open", "write"}}

\* What the file holds of event e, in file order.
TextOf(e) == LET OfEvent(x) == x.event = e IN SelectSeq(log_file, OfEvent)

LineBreaks(text) == Cardinality({k \in 1..Len(text) : text[k].kind = "nl"})

\* The text of no event is split by text of another event.
Contiguous ==
    \A i, j, k \in 1..Len(log_file) :
        (i < j /\ j < k /\ log_file[i].event = log_file[k].event)
            => log_file[j].event = log_file[i].event

\* The calls that have returned, as <<thread, number of the call>>.
ReturnedEvents == {<<t, n>> : t \in LogThreads, n \in 1..MaxEvents} \cap {e \in LogThreads \X (1..MaxEvents) : e[2] \in writers[e[1]].returned}

Expected(e) ==
    written(e[1], e[2], writers[e[1]].calls[e[2]].method,
            writers[e[1]].calls[e[2]].message)

C25_OneLinePerCall ==
    /\ \A e \in ReturnedEvents :
          /\ LineBreaks(TextOf(e)) = 1
          /\ TextOf(e)[1].agent_name = agent_name(e[1])
          /\ TextOf(e)[1].level = level(writers[e[1]].calls[e[2]].method)
    /\ \A i, j \in 1..Len(log_file) :
          (i < j /\ log_file[i].event[1] = log_file[j].event[1])
              => log_file[i].event[2] <= log_file[j].event[2]

\* C28: every error the run catches has an ERROR event in the activity log
\* before processing continues: here, the error of a paper's pipeline caught
\* at run level.
C28_CaughtErrorsLogged ==
    \A k \in 1..Len(run.caught) :
        \E n \in 1..Len(run.thoughts) :
            /\ run.thoughts[n].level = "ERROR"
            /\ run.thoughts[n].paper = run.caught[k]

(***************************************************************************)
(* Properties of the command line (SpecCli).                               *)
(***************************************************************************)
\* The validations of the command line, as the claim lists them.
AllValid ==
    /\ cli.args.topic.length >= 3 /\ cli.args.topic.length <= 200
    /\ cli.args.topic.chars = "allowed"
    /\ 1 <= cli.args.num_papers /\ cli.args.num_papers <= 20
    /\ 1 <= cli.args.num_vms /\ cli.args.num_vms <= 10
    /\ cli.args.num_papers <= cli.args.num_vms

C27_ExitCode ==
    cli.pc = "exited"
        => cli.exit_code = IF cli.completed /\ ~cli.interrupted THEN 0 ELSE 1

\* C29: once the process has ended after a user interrupt, no remote desktop
\* instance that was held at the interrupt is still held.
C29_InterruptReleasesInstances ==
    (cli.pc = "exited" /\ cli.interrupted) => cli.instance # "held"

(***************************************************************************)
(* Properties of the parsing of model responses (SpecParse).               *)
(***************************************************************************)
\* The fields each stage's record declares, and those it requires.
FieldsOf(stage) ==
    IF stage = "Extract"
    THEN {"abstract", "introduction", "methodology", "results", "conclusion",
          "full_text", "figures"}
    ELSE {"key_claims", "metrics_and_results", "methodology_summary",
          "mathematical_derivations", "tldr", "eli5"}

RequiredOf(stage) == FieldsOf(stage) \ {"figures"}

\* The response is not valid JSON, lacks a required field, or has a field of
\* another type than the declared one.
Malformed ==
    \/ parse.text.kind # "json"
    \/ \E k \in RequiredOf(parse.stage) : k \notin DOMAIN parse.text.obj
    \/ \E k \in FieldsOf(parse.stage) \cap DOMAIN parse.text.obj :
          parse.text.types[k] # DeclaredType[k]

\* The value is the fallback of the stage.
IsFallback(stage, value) ==
    CASE stage = "Extract" ->
             /\ value.introduction = "Content extraction failed"
             /\ value.conclusion = "Content extraction failed"
      [] stage = "Analyze" -> value = AnalysisFailed
      [] stage = "Consolidate" -> value = fallback_merge(ParseAnalyses)

\* C30: parsing a malformed response raises and gives no record, a record
\* that is returned carries every declared field, and the stage that parsed a
\* malformed response returns its fallback instead of raising.
C30_ParseErrorsCaught ==
    /\ parse.pc \in {"parsed", "returned"} /\ parse.received
          => IF Malformed
             THEN parse.parsed.raised /\ parse.parsed.value = None
             ELSE /\ ~parse.parsed.raised
                  /\ DOMAIN parse.parsed.value = FieldsOf(parse.stage)
    /\ parse.pc = "returned" /\ parse.received
          => /\ ~parse.result.raised
             /\ DOMAIN parse.result.value = FieldsOf(parse.stage)
             /\ Malformed => IsFallback(parse.stage, parse.result.value)

C30_Witness ==
    /\ parse.pc = "returned"
    /\ parse.received
    /\ parse.stage = "Analyze"
    /\ parse.text.kind = "json"
    /\ DOMAIN parse.text.obj = FieldsOf("Analyze")
    /\ parse.text.types.tldr = "int"
    /\ parse.parsed.raised
    /\ parse.result.value = AnalysisFailed

(***************************************************************************)
(* Properties of ExtractorAgent.run (SpecExtract).                         *)
(***************************************************************************)
\* C31: whenever the LaTeX path gave no text, also when there was no source
\* archive, the PDF path is run, and run raises only when neither path gave
\* text.
C31_PdfFallbackUnlessLatexText ==
    extract.pc = "done"
        => /\ ~extract.latex_text => extract.pdf_ran
           /\ extract.result.raised
                 => ~extract.latex_text /\ ~extract.pdf_text

\* C32: when a path gave text and the structuring failed, run does not raise
\* and returns the content whose abstract is the abstract of the metadata and
\* whose figures are those of the path that gave the text.
C32_DegradedContentReturned ==
    extract.pc = "done" /\ extract.structuring = "failed"
        => /\ ~extract.result.raised
           /\ extract.result.value.abstract = "metadata.abstract"
           /\ extract.result.value.figures = extract.produced.figures

C32_Witness ==
    /\ extract.pc = "done"
    /\ extract.structuring = "failed"
    /\ extract.produced = [by |-> "pdf", figures |-> <<"pdf image">>]
    /\ extract.result.value.figures = <<"pdf image">>
    /\ extract.result.value.introduction = "Content extraction failed"

\* C33: the text of the prompt is within one fixed limit, and the full text
\* of the degraded content is that same capped text.
C33_OneBudget ==
    extract.pc = "done" /\ extract.structuring # "none"
        => /\ extract.prompt.chars <= PromptLimit
           /\ extract.structuring = "failed"
                 => extract.result.value.full_text = extract.prompt

(***************************************************************************)
(* Properties of the browsing loop of CriticAgent.run (Spec, SpecCritic).  *)
(***************************************************************************)
IsPrefix(xs, ys) == Len(xs) <= Len(ys) /\ SubSeq(ys, 1, Len(xs)) = xs

ErrorNote(c) ==
    <<"\n", "Could not analyze search results", c.key_claims[c.claim]>>

\* C34: for each claim the loop makes at most max_steps rounds and so at most
\* max_steps calls of exec; a round starts only while the agent has not
\* signalled completion, and the round in which it signals completion or gives
\* no action executes nothing.
C34_StepBudget ==
    [][\A w \in Workers :
          LET c == critic[w]
              d == critic'[w]
          IN  /\ d.step_count <= max_steps
              /\ d.exec_calls <= d.step_count
              /\ d.step_count = c.step_count + 1
                    => /\ ~c.task_complete
                       /\ c.step_count < max_steps
                       /\ d.task_complete => d.exec_calls = c.exec_calls]_vars

C34_Witness ==
    \E w \in Workers :
        /\ critic[w].pc = "while"
        /\ critic[w].step_count = max_steps
        /\ critic[w].exec_calls = max_steps
        /\ ~critic[w].task_complete

\* C35: a round whose exec raised changes nothing but the counters: the loop
\* and the stage go on, the next round is started while the budget allows,
\* and after the last round the claim is summarised.
C35_ExecErrorIsNoOp ==
    [][\A w \in Workers :
          LET c == critic[w]
              d == critic'[w]
          IN  /\ d.last_exec = "error" /\ d.step_count = c.step_count + 1
                    => /\ d.pc = "while"
                       /\ d.result = None
                       /\ ~d.task_complete
                       /\ d.corroborating_sources = c.corroborating_sources
                       /\ d.conflicting_sources = c.conflicting_sources
                       /\ d.synthesis_text = c.synthesis_text
              /\ c.pc = "while" /\ c.last_exec = "error" /\ d # c
                    => IF c.step_count < max_steps
                       THEN d.step_count = c.step_count + 1
                       ELSE /\ d.pc \in {"for", "finally"}
                            /\ d.pc = "for"
                                  => Len(d.synthesis_text) > Len(c.synthesis_text)]_vars

C35_Witness ==
    \E w \in Workers :
        /\ critic[w].pc = "for"
        /\ critic[w].last_exec = "error"
        /\ critic[w].step_count = max_steps
        /\ Len(critic[w].synthesis_text) > 0

\* C36: an error while summarising a claim keeps the sources of the earlier
\* claims, appends one note for the claim to the synthesis text and goes on
\* with the next claim; a summary never replaces what was accumulated.
C36_SummaryErrorIsLocal ==
    [][\A w \in Workers :
          LET c == critic[w]
              d == critic'[w]
          IN  c.pc = "while" /\ d.pc = "for"
                 => /\ IsPrefix(c.corroborating_sources, d.corroborating_sources)
                    /\ IsPrefix(c.conflicting_sources, d.conflicting_sources)
                    /\ IsPrefix(c.synthesis_text, d.synthesis_text)
                    /\ d.key_claims = c.key_claims /\ d.claim = c.claim
                    /\ d.result = None
                    /\ d.synthesis_text[Len(d.synthesis_text) - 1]
                          = "Could not analyze search results"
                          => /\ d.synthesis_text = c.synthesis_text \o ErrorNote(c)
                             /\ d.conflicting_sources = c.conflicting_sources]_vars

C36_Witness ==
    \E w \in Workers :
        LET c == critic[w] IN
        /\ c.pc = "for"
        /\ c.claim = 2
        /\ c.corroborating_sources = <<SourceWithTitle>>
        /\ Len(c.synthesis_text) = 7
        /\ c.synthesis_text[2] = "Analysis for claim"
        /\ c.synthesis_text[6] = "Could not analyze search results"

\* C39: the Critique returned after a stage-level failure has empty source
\* lists, whatever the earlier claims had accumulated.
C39_StageErrorDiscardsSources ==
    \A w \in Workers :
        critic[w].pc = "finally"
        /\ critic[w].result.synthesis = <<"Error during external validation">>
           => /\ critic[w].result.corroborating_sources = <<>>
              /\ critic[w].result.conflicting_sources = <<>>

C39_Witness ==
    \E w \in Workers :
        /\ critic[w].pc = "finally"
        /\ critic[w].claim = 2
        /\ critic[w].corroborating_sources = <<SourceWithTitle>>
        /\ critic[w].result.synthesis = <<"Error during external validation">>
        /\ critic[w].result.corroborating_sources = <<>>

(***************************************************************************)
(* Properties of the paper pipeline without a critique (Spec).             *)
(***************************************************************************)
NoCritique == pc = "done" /\ "Critique" \in invoked /\ state.critique = None

\* The report is the one SynthesizerAgent.run builds itself, and its
\* validation block says that there was none.
StatesNoValidation(final_report) ==
    /\ Len(final_report.text) = 5
    /\ final_report.text[3] = [text |-> "No external validation performed."]

\* C37 as claimed: when Critique yields no critique, Synthesize is invoked
\* with the consolidated analysis and no critique, and its report states that
\* no external validation was performed.
C37_ReportStatesNoValidation ==
    NoCritique
        => /\ "Synthesize" \in invoked
           /\ state.analysis # None
           /\ state.final_report # None
           /\ StatesNoValidation(state.final_report)

\* C37 as amended: when Critique yields no critique, Synthesize is invoked
\* with the consolidated analysis and no critique and returns a report; the
\* report it builds itself when its call fails states that no external
\* validation was performed.
C37_SynthesizeRunsWithoutCritique ==
    NoCritique
        => /\ "Synthesize" \in invoked
           /\ "Synthesize" \notin raised_in
           /\ state.analysis # None
           /\ state.final_report # None
           /\ state.final_report.text \notin ReportTexts
                 => StatesNoValidation(state.final_report)

C37_Witness ==
    /\ NoCritique
    /\ "Critique" \in raised_in
    /\ "Synthesize" \in invoked
    /\ state.final_report # None
    /\ StatesNoValidation(state.final_report)

\* C38: in the state the pipeline returns, a report implies an analysis, a
\* critique implies an analysis, and an analysis implies extracted content.
C38_PopulatedFieldsFormPrefix ==
    pc = "done"
        => /\ state.final_report # None => state.analysis # None
           /\ state.critique # None => state.analysis # None
           /\ state.analysis # None => state.structured_content # None

C38_Witness ==
    /\ pc = "done"
    /\ state.structured_content # None
    /\ state.analysis # None
    /\ state.critique = None
    /\ state.final_report # None

(***************************************************************************)
(* Termination of the pipelines and of run (SpecTermination).              *)
(***************************************************************************)
\* _process_single_paper has returned the state of its paper.
PipelineEnded == pc = "done"

\* run has returned or raised, and no submitted pipeline is queued or running.
RunEnded ==
    /\ pc = "run"
    /\ run.pc \in {"returned", "raised"}
    /\ \A i \in 1..Len(tasks) : tasks[i].status \in {"returned", "raised"}

\* C40: every paper pipeline eventually reaches its end, and run eventually
\* ends with every pipeline it submitted ended; run never ends while one of
\* them is queued or running.
C40_PipelinesAndRunTerminate ==
    /\ <>(PipelineEnded \/ RunEnded)
    /\ [](pc = "run" /\ run.pc \in {"returned", "raised"} => RunEnded)

C40_Witness ==
    /\ RunEnded
    /\ Len(tasks) = MaxPapers
    /\ run.num_vms < Len(tasks)
    /\ run.pc = "returned"
    /\ \E i \in 1..Len(tasks) : tasks[i].status = "raised"

====
